---- MODULE Spec2Model ----
(***************************************************************************)
(* Sous Chef Kitchen: run orchestration and admission control.             *)
(*                                                                         *)
(* The model covers the request handlers of kitchen/api.py and the core    *)
(* functions of kitchen/chef.py they call, against a workflow engine       *)
(* (Prefect) that holds all run state.  A handler that awaits the engine   *)
(* more than once is one action per round trip, so that other requests and *)
(* the engine itself may act in between.                                   *)
(***************************************************************************)
EXTENDS Integers, Sequences, FiniteSets, Bags, TLC

(***************************************************************************)
(* Bounds of the model.                                                    *)
(***************************************************************************)
MaxRuns == 2         \* runs the engine may hold
MaxInflight == 2     \* requests in flight at the same time
MaxDefaultLen == 2   \* length up to which a shared default list may grow
MaxCalls == 3        \* calls of generate_tag_slug in one behaviour
MaxListed == 3       \* runs the engine holds when the runs are listed
MaxEmailTo == 2      \* length of the email_to list a request carries
MaxOpen == 2         \* client sessions other requests hold open

(***************************************************************************)
(* Program constants.                                                      *)
(***************************************************************************)
BASE_TAGS == <<"kitchen">>
PREFECT_ACTIVE_STATES == {"RUNNING", "SCHEDULED", "PENDING"}
MAX_USER_FLOWS == 1

TerminalStates == {"COMPLETED", "FAILED", "CANCELLED"}
StateTypes == PREFECT_ACTIVE_STATES \cup TerminalStates \cup {"PAUSED", "CANCELLING"}

(***************************************************************************)
(* Callers.  A caller is an account that passed _validate_auth; its        *)
(* AuthStatus carries the tag slug and the staff / full-text flags.        *)
(***************************************************************************)
Users == {"u1", "adm"}
Staff == {"adm"}

SlugOf(u) == IF u = "u1" THEN "user-u1-0a" ELSE "user-adm-0c"

\* A caller whose credentials validate_auth does not accept.
Callers == Users \cup {"anon"}

AuthStatus(u) ==
    [authorized |-> u \in Users,
     media_cloud_staff |-> u \in Staff,
     media_cloud_full_text_authorized |-> u \in Staff,
     tag_slug |-> IF u \in Users THEN SlugOf(u) ELSE ""]

(***************************************************************************)
(* The flow registry (get_flow): an external, read-only table.             *)
(***************************************************************************)
Recipes == {"keywords", "adminflow"}
RecipeArgs == Recipes \cup {"nosuch"}

get_flow(name) ==
    IF name \in Recipes
    THEN [found |-> TRUE, admin_only |-> (name = "adminflow"), params_model |-> TRUE]
    ELSE [found |-> FALSE, admin_only |-> FALSE, params_model |-> FALSE]

(***************************************************************************)
(* Run ids.  The engine's ids are UUIDs (modelled as 1..MaxRuns, in order  *)
(* of creation); a request names a run by a value that is either a UUID    *)
(* object or a string.  BadId is a string that does not parse as a UUID;   *)
(* MaxRuns + 1 is a well-formed id that names no run.                      *)
(***************************************************************************)
BadId == 0
RunIds == 1..MaxRuns
RidVals == RunIds \cup {MaxRuns + 1, BadId}

VARIABLES
    runs,         \* the engine's flow runs, in order of creation
    reqs,         \* bag of the requests in flight (between two round trips)
    resp,         \* the response of the request that has just completed
    defaults,     \* the default-argument lists of pause/resume_recipe_run
    flow,         \* one execution of kitchen_base on a worker
    auth,         \* one call of validate_auth
    slug,         \* the calls of generate_tag_slug made so far, with their results
    enrich,       \* one pass of start_recipe over the parameters it submits
    session,      \* one core operation and the client sessions it holds
    publish       \* one call of _create_artifacts and the keys it has used

vars == <<runs, reqs, resp, defaults, flow, auth, slug, enrich, session, publish>>

\* The variables of the helper functions, which no handler step changes.
aux == <<slug, enrich, session, publish>>

NoParams == [recipe_name |-> "none", return_restricted_artifacts |-> FALSE]

Exists(i) == i \in 1..Len(runs)

\* The run ids a request may name: those of the runs there are, a well-formed
\* id of no run and a malformed string.
IdArgs == 1..Len(runs) \cup {MaxRuns + 1, BadId}

\* Total length of the shared default lists.
DefaultsLen == Len(defaults.pause) + Len(defaults.resume)

(***************************************************************************)
(* Tag filters.                                                            *)
(***************************************************************************)
InList(x, list) == \E j \in 1..Len(list) : list[j] = x

\* FlowRunFilterTags(all_=wanted): the run carries every wanted tag.
HasAllTags(run_tags, wanted) == \A k \in 1..Len(wanted) : InList(wanted[k], run_tags)

\* client.read_flow_runs(flow_run_filter=...) with a tag and a state filter.
read_flow_runs(tag_filter, states) ==
    {i \in 1..Len(runs) :
        HasAllTags(runs[i].tags, tag_filter) /\ runs[i].state \in states}

\* fetch_runs_by_state: appends BASE_TAGS to the list it was given (in place)
\* and queries the engine; .tags is the argument list after the call.
fetch_runs_by_state(tags, states) ==
    LET t == tags \o BASE_TAGS
    IN  [tags |-> t, ids |-> read_flow_runs(t, states)]

fetch_active_runs_AnyState(tags) == fetch_runs_by_state(tags, StateTypes)

fetch_active_runs(tags) == fetch_runs_by_state(tags, PREFECT_ACTIVE_STATES)

fetch_paused_runs_WithActive(tags) ==
    fetch_runs_by_state(tags, {"PAUSED"} \cup PREFECT_ACTIVE_STATES)

fetch_paused_runs(tags) == fetch_runs_by_state(tags, {"PAUSED"})

(***************************************************************************)
(* Requests and responses.                                                 *)
(***************************************************************************)
NoDetail == [msg |-> "none", cause |-> "none", rid |-> BadId, n |-> 0, quota |-> 0,
             required |-> <<>>, has |-> <<>>, artifacts |-> {}, ids |-> <<>>]

Request(op, via, caller, recipe, idtype, idval, pc, tags) ==
    [op |-> op, via |-> via, caller |-> caller, recipe |-> recipe,
     idtype |-> idtype, idval |-> idval, pc |-> pc, tags |-> tags,
     parent_only |-> TRUE, active |-> 0, calls |-> <<>>]

NoReq == Request("none", "api", "u1", "nosuch", "str", BadId, "none", <<>>)

NoResp == [req |-> NoReq, exc |-> "none", status |-> 0, detail |-> NoDetail]

Response(r, exc, status, detail) ==
    [req |-> r, exc |-> exc, status |-> status, detail |-> detail]

Ok(r) == Response(r, "none", 200, NoDetail)

Msg(m) == [NoDetail EXCEPT !.msg = m]

CanAccept == resp = NoResp /\ BagCardinality(reqs) < MaxInflight

InFlight(r) == resp = NoResp /\ BagIn(r, reqs)

Replace(r, r2) == (reqs (-) SetToBag({r})) (+) SetToBag({r2})

Remove(r) == reqs (-) SetToBag({r})

Called(r, name) == [r EXCEPT !.calls = Append(@, name)]

(***************************************************************************)
(* The guard every handler of api.py begins with.                          *)
(***************************************************************************)
ApiAuthorized_Unchecked(u) == TRUE

\* auth_status = await _validate_auth(...); if not auth_status.authorized:
\* raise HTTPException(403)
ApiAuthorized(u) == AuthStatus(u).authorized

\* The endpoints that begin with the guard.
ApiOps == {"start", "schema", "recipes", "active", "cancel", "pause", "resume",
           "all", "list", "run", "artifacts", "flow-status"}

\* A request the guard turns away.
ApiForbidden(op, u) ==
    /\ resp = NoResp
    /\ ~ApiAuthorized(u)
    /\ resp' = Response(Request(op, "api", u, "nosuch", "str", BadId, "none", <<>>),
                        "HTTPException", 403, Msg("Authentication failed"))
    /\ UNCHANGED <<runs, reqs, defaults, flow, auth, aux>>

(***************************************************************************)
(* start: api.start_recipe -> chef.start_recipe.  Everything up to the     *)
(* first await (recipe lookup, admin-only, parameter validation) runs      *)
(* without interruption and is one step with the admission query; the      *)
(* deployment lookup and the create share one client session.              *)
(***************************************************************************)
ApiStartTags_NoSlug(u) == <<>>

\* api.start_recipe passes tags=[auth_status.tag_slug] and no user_is_admin.
ApiStartTags(u) == <<AuthStatus(u).tag_slug>>

ApiUserIsAdmin(u) == FALSE

AtCapacity_OffByOne(n) == n > MAX_USER_FLOWS

\* len(active_runs) >= MAX_USER_FLOWS
AtCapacity(n) == n >= MAX_USER_FLOWS

CapacityError(n) ==
    [Msg("Cannot start a new recipe run") EXCEPT !.n = n, !.quota = MAX_USER_FLOWS]

\* The run that create_flow_run_from_deployment(parameters, tags) creates.
NewRun(r) ==
    [state |-> "SCHEDULED", tags |-> r.tags, parent |-> FALSE, artifacts |-> {},
     parameters |->
        [recipe_name |-> r.recipe,
         return_restricted_artifacts |->
            AuthStatus(r.caller).media_cloud_full_text_authorized]]

PendingCreates ==
    BagCardinality([r \in {x \in BagToSet(reqs) : x.op = "start"} |-> CopiesIn(r, reqs)])

\* The quota checked only after the run was created.
StartAdmit_CheckAfterCreate(u, recipe, valid) ==
    /\ CanAccept
    /\ Len(runs) + PendingCreates < MaxRuns
    /\ get_flow(recipe).found /\ ~get_flow(recipe).admin_only /\ valid
    /\ LET r == Request("start", "api", u, recipe, "str", BadId, "dispatch", ApiStartTags(u))
           q == fetch_active_runs(r.tags \o BASE_TAGS)
           n == Cardinality(q.ids)
           r2 == [Called(r, "read_flow_runs") EXCEPT !.tags = q.tags, !.active = n]
       IN  IF AtCapacity(n)
           THEN /\ resp' = Response(Called(r2, "create_flow_run_from_deployment"),
                              "RuntimeError", 400, CapacityError(n))
                /\ runs' = Append(runs, NewRun(r2))
                /\ reqs' = reqs
           ELSE /\ reqs' = reqs (+) SetToBag({r2})
                /\ resp' = resp
                /\ runs' = runs
    /\ UNCHANGED <<defaults, flow, auth, aux>>

\* The admission query made before the parameters are validated.
StartAdmit_CapacityFirst(u, recipe, valid) ==
    /\ CanAccept
    /\ ApiAuthorized(u)
    /\ Len(runs) + PendingCreates < MaxRuns
    /\ LET r == Request("start", "api", u, recipe, "str", BadId, "dispatch", ApiStartTags(u))
           flow_meta == get_flow(recipe)
           q == fetch_active_runs(r.tags \o BASE_TAGS)
           n == Cardinality(q.ids)
           r2 == [Called(r, "read_flow_runs") EXCEPT !.tags = q.tags, !.active = n]
       IN  IF ~flow_meta.found
           THEN /\ resp' = Response(r, "ValueError", 400, Msg("flow not found"))
                /\ reqs' = reqs
           ELSE IF flow_meta.admin_only /\ ~ApiUserIsAdmin(u)
           THEN /\ resp' = Response(r, "RuntimeError", 400, Msg("restricted to admin users"))
                /\ reqs' = reqs
           ELSE IF AtCapacity(n)
           THEN /\ resp' = Response(r2, "RuntimeError", 400, CapacityError(n))
                /\ reqs' = reqs
           ELSE IF flow_meta.params_model /\ ~valid
           THEN /\ resp' = Response(r, "ValueError", 400, Msg("Parameter validation failed"))
                /\ reqs' = reqs
           ELSE /\ reqs' = reqs (+) SetToBag({r2})
                /\ resp' = resp
    /\ UNCHANGED <<runs, defaults, flow, auth, aux>>

\* start_recipe up to the admission query: get_flow, admin-only, parameter
\* validation, tags += BASE_TAGS, active_runs = await fetch_active_runs(tags).
StartAdmit(u, recipe, valid) ==
    /\ CanAccept
    /\ ApiAuthorized(u)
    /\ Len(runs) + PendingCreates < MaxRuns
    /\ LET r == Request("start", "api", u, recipe, "str", BadId, "dispatch", ApiStartTags(u))
           flow_meta == get_flow(recipe)
           q == fetch_active_runs(r.tags \o BASE_TAGS)
           n == Cardinality(q.ids)
           r2 == [Called(r, "read_flow_runs") EXCEPT !.tags = q.tags, !.active = n]
       IN  IF ~flow_meta.found
           THEN /\ resp' = Response(r, "ValueError", 400, Msg("flow not found"))
                /\ reqs' = reqs
           ELSE IF flow_meta.admin_only /\ ~ApiUserIsAdmin(u)
           THEN /\ resp' = Response(r, "RuntimeError", 400, Msg("restricted to admin users"))
                /\ reqs' = reqs
           ELSE IF flow_meta.params_model /\ ~valid
           THEN /\ resp' = Response(r, "ValueError", 400, Msg("Parameter validation failed"))
                /\ reqs' = reqs
           ELSE IF AtCapacity(n)
           THEN /\ resp' = Response(r2, "RuntimeError", 400, CapacityError(n))
                /\ reqs' = reqs
           ELSE /\ reqs' = reqs (+) SetToBag({r2})
                /\ resp' = resp
    /\ UNCHANGED <<runs, defaults, flow, auth, aux>>

\* A create that is conditional on the quota still holding.
StartDispatch_Conditional(r) ==
    /\ InFlight(r)
    /\ r.op = "start" /\ r.pc = "dispatch"
    /\ \E deployment \in BOOLEAN :
         LET r2 == Called(r, "read_deployments")
             n == Cardinality(read_flow_runs(r.tags, PREFECT_ACTIVE_STATES))
         IN  IF ~deployment
             THEN /\ resp' = Response(r2, "ValueError", 400, Msg("No deployment found"))
                  /\ runs' = runs
             ELSE IF AtCapacity(n)
             THEN /\ resp' = Response(r2, "RuntimeError", 400, CapacityError(n))
                  /\ runs' = runs
             ELSE /\ runs' = Append(runs, NewRun(r))
                  /\ resp' = Ok(Called(r2, "create_flow_run_from_deployment"))
    /\ reqs' = Remove(r)
    /\ UNCHANGED <<defaults, flow, auth, aux>>

\* read_deployments (the engine answers with the deployment or with none),
\* then create_flow_run_from_deployment.
StartDispatch(r) ==
    /\ InFlight(r)
    /\ r.op = "start" /\ r.pc = "dispatch"
    /\ \E deployment \in BOOLEAN :
         LET r2 == Called(r, "read_deployments")
         IN  IF ~deployment
             THEN /\ resp' = Response(r2, "ValueError", 400, Msg("No deployment found"))
                  /\ runs' = runs
             ELSE /\ runs' = Append(runs, NewRun(r))
                  /\ resp' = Ok(Called(r2, "create_flow_run_from_deployment"))
    /\ reqs' = Remove(r)
    /\ UNCHANGED <<defaults, flow, auth, aux>>

(***************************************************************************)
(* Lookup of one run.                                                      *)
(***************************************************************************)
ParsesAsUUID_Any(idval) == TRUE

\* UUID(run_id) for a string argument: fails on a malformed string.
ParsesAsUUID(idval) == idval # BadId

\* fetch_run_by_id against the engine's runs rs: parse a string argument,
\* then client.read_flow_run, which raises for an id that names no run.
fetch_run_by_id(rs, idtype, idval) ==
    IF idtype = "str" /\ ~ParsesAsUUID(idval)
    THEN [exc |-> "ValueError", cause |-> "Failed to parse the string as a UUID"]
    ELSE IF idval \notin 1..Len(rs)
    THEN [exc |-> "ObjectNotFound", cause |-> "ObjectNotFound"]
    ELSE [exc |-> "none", cause |-> "none"]

KeyEq_ByValue(key, idtype, idval) == key = idval

\* Equality of a key of {run["id"]: run ...} (a UUID object, chef._run_to_dict)
\* with the run_id argument of dict.get: a str never equals a UUID.
KeyEq(key, idtype, idval) == idtype = "uuid" /\ key = idval

\* active_runs.get(run_id) over the dict built from the fetched runs.
DictGet(ids, idtype, idval) == {i \in ids : KeyEq(i, idtype, idval)}

\* The exception as the caller sees it: an HTTP status through the API.
HttpStatus(via, code) == IF via = "api" THEN code ELSE 0

(***************************************************************************)
(* The engine's answers to state-changing calls (Engine Port).             *)
(***************************************************************************)
\* set_flow_run_state(id, CANCELLING): the orchestration result.
EngineSetCancelling(state) ==
    IF state \in TerminalStates THEN {"ABORT", "REJECT"} ELSE {"ACCEPT"}

\* pause_flow_run(flow_run_id): the state after the call, {} if refused.
EnginePause(state) == IF state = "RUNNING" THEN {"PAUSED"} ELSE {}

\* resume_flow_run(flow_run_id): the state after the call, {} if refused.
EngineResume(state) == IF state = "PAUSED" THEN {"RUNNING", "SCHEDULED"} ELSE {}

(***************************************************************************)
(* cancel: api.cancel_recipe_run -> chef.cancel_recipe_run.                *)
(***************************************************************************)
ApiCancelTags_AlwaysSlug(u) == <<AuthStatus(u).tag_slug>>

\* user_tags = [] if auth_status.media_cloud_staff else [auth_status.tag_slug]
ApiCancelTags(u) ==
    IF AuthStatus(u).media_cloud_staff THEN <<>> ELSE <<AuthStatus(u).tag_slug>>

required_tags_BaseOnly(tags) == BASE_TAGS

\* required_tags = tags + BASE_TAGS if tags else BASE_TAGS
required_tags(tags) == IF tags # <<>> THEN tags \o BASE_TAGS ELSE BASE_TAGS

\* What cancel_recipe_run does up to its ownership check, as a function of
\* the engine's runs: the error it raises, or none.
CancelCheck(rs, idtype, idval, tags) ==
    LET found == fetch_run_by_id(rs, idtype, idval)
    IN  IF found.exc # "none"
        THEN [exc |-> "ValueError",
              detail |-> [Msg("Unable to find a run") EXCEPT !.rid = idval, !.cause = found.cause]]
        ELSE IF ~HasAllTags(rs[idval].tags, required_tags(tags))
        THEN [exc |-> "ValueError",
              detail |-> [Msg("does not have the required tags") EXCEPT
                             !.rid = idval, !.required = required_tags(tags),
                             !.has = rs[idval].tags]]
        ELSE [exc |-> "none", detail |-> NoDetail]

\* fetch_run_by_id and the ownership check.
CancelFetch(u, idval) ==
    /\ CanAccept
    /\ ApiAuthorized(u)
    /\ idval \in IdArgs
    /\ LET r == Called(Request("cancel", "api", u, "keywords", "str", idval, "set",
                               ApiCancelTags(u)), "read_flow_run")
           c == CancelCheck(runs, r.idtype, r.idval, r.tags)
       IN  IF c.exc # "none"
           THEN /\ resp' = Response(r, c.exc, 400, c.detail)
                /\ reqs' = reqs
           ELSE /\ reqs' = reqs (+) SetToBag({r})
                /\ resp' = resp
    /\ UNCHANGED <<runs, defaults, flow, auth, aux>>

\* A cancel that asks the engine for CANCELLED.
CancelSetState_Cancelled(r) ==
    /\ InFlight(r)
    /\ r.op = "cancel" /\ r.pc = "set"
    /\ \E status \in EngineSetCancelling(runs[r.idval].state) :
         LET r2 == Called(r, "set_flow_run_state")
         IN  /\ runs' = IF status = "ACCEPT"
                        THEN [runs EXCEPT ![r.idval].state = "CANCELLED"]
                        ELSE runs
             /\ resp' = IF status = "ABORT"
                        THEN Response(r2, "RuntimeError", 400, Msg("Unable to cancel the flow run"))
                        ELSE Response(r2, "none", 200, Msg(status))
    /\ reqs' = Remove(r)
    /\ UNCHANGED <<defaults, flow, auth, aux>>

\* client.set_flow_run_state(run_dict["id"], CANCELLING) and its result.
CancelSetState(r) ==
    /\ InFlight(r)
    /\ r.op = "cancel" /\ r.pc = "set"
    /\ \E status \in EngineSetCancelling(runs[r.idval].state) :
         LET r2 == Called(r, "set_flow_run_state")
         IN  /\ runs' = IF status = "ACCEPT"
                        THEN [runs EXCEPT ![r.idval].state = "CANCELLING"]
                        ELSE runs
             /\ resp' = IF status = "ABORT"
                        THEN Response(r2, "RuntimeError", 400, Msg("Unable to cancel the flow run"))
                        ELSE Response(r2, "none", 200, Msg(status))
    /\ reqs' = Remove(r)
    /\ UNCHANGED <<defaults, flow, auth, aux>>

(***************************************************************************)
(* pause / resume: api.pause_recipe_run -> chef.pause_recipe_run, and the  *)
(* same for resume.  The API passes no tags, so the core function works on *)
(* its default list; a direct caller of the core passes its own tags and   *)
(* may name the run by the UUID object of an earlier result.               *)
(***************************************************************************)
\* The tags argument the core function receives.
LifecycleTags(via, u, deflist) == IF via = "api" THEN deflist ELSE <<AuthStatus(u).tag_slug>>

\* pause_recipe_run: tags += BASE_TAGS; fetch_active_runs(tags);
\* {run["id"]: run ...}.get(run_id).  .tags is the argument list after the
\* call, .found the runs the lookup returned.
pause_lookup(tags, idtype, idval) ==
    LET q == fetch_active_runs(tags \o BASE_TAGS)
    IN  [tags |-> q.tags, found |-> DictGet(q.ids, idtype, idval)]

\* resume_recipe_run: the same over fetch_paused_runs.
resume_lookup(tags, idtype, idval) ==
    LET q == fetch_paused_runs(tags \o BASE_TAGS)
    IN  [tags |-> q.tags, found |-> DictGet(q.ids, idtype, idval)]

\* The first round trip of pause / resume: l is the result of the lookup.
LifecycleQuery(op, l, notfound, via, u, idtype, idval) ==
    /\ CanAccept
    /\ idval \in IdArgs
    /\ via = "api" => ApiAuthorized(u) /\ idtype = "str" /\ DefaultsLen + 2 <= MaxDefaultLen
    /\ via = "core" => u \in Users /\ idtype = "uuid" /\ idval # BadId
    /\ LET r == [Called(Request(op, via, u, "keywords", idtype, idval, "call", l.tags),
                        "read_flow_runs") EXCEPT !.active = Cardinality(l.found)]
       IN  /\ defaults' = IF via = "api" THEN [defaults EXCEPT ![op] = l.tags] ELSE defaults
           /\ IF l.found = {}
              THEN /\ resp' = Response(r, "ValueError", HttpStatus(via, 400),
                                 [Msg(notfound) EXCEPT !.rid = idval])
                   /\ reqs' = reqs
              ELSE /\ reqs' = reqs (+) SetToBag({r})
                   /\ resp' = resp
    /\ UNCHANGED <<runs, flow, auth, aux>>

LifecycleCall(op, call, r) ==
    /\ InFlight(r)
    /\ r.op = op /\ r.pc = "call"
    /\ LET r2 == Called(r, call)
           after == IF op = "pause" THEN EnginePause(runs[r.idval].state)
                                    ELSE EngineResume(runs[r.idval].state)
       IN  IF after = {}
           THEN /\ runs' = runs
                /\ resp' = Response(r2, "EngineError", HttpStatus(r.via, 500), Msg("engine refused"))
           ELSE /\ \E s \in after : runs' = [runs EXCEPT ![r.idval].state = s]
                /\ resp' = Ok(r2)
    /\ reqs' = Remove(r)
    /\ UNCHANGED <<defaults, flow, auth, aux>>

\* pause_recipe_run up to the lookup of the run among the active runs.
PauseQuery(via, u, idtype, idval) ==
    LifecycleQuery("pause",
                   pause_lookup(LifecycleTags(via, u, defaults.pause), idtype, idval),
                   "Unable to find an active run", via, u, idtype, idval)

\* await prefect.pause_flow_run(flow_run_id=recipe_run["id"])
PauseCall(r) == LifecycleCall("pause", "pause_flow_run", r)

\* resume_recipe_run up to the lookup of the run among the paused runs.
ResumeQuery(via, u, idtype, idval) ==
    LifecycleQuery("resume",
                   resume_lookup(LifecycleTags(via, u, defaults.resume), idtype, idval),
                   "Unable to find a paused run", via, u, idtype, idval)

\* await prefect.resume_flow_run(flow_run_id=recipe_run["id"])
ResumeCall(r) == LifecycleCall("resume", "resume_flow_run", r)

(***************************************************************************)
(* The execution layer (kitchen/flow.py): kitchen_base runs the recipe's   *)
(* flow function on a worker, formats its return value, filters the        *)
(* restricted entries and publishes one table artifact per entry.          *)
(***************************************************************************)
MaxEntries == 2      \* entries of a flow's return value

TaskNames == {"counts", "fulltext", "sample"}

\* The "restricted" item of an entry: missing, True or False.
Flags == {"absent", "true", "false"}

\* A value under a key of the mapping a flow returns: either a record that
\* has a "data" item (and perhaps a "restricted" one), or any other value:
\* a list, a BaseArtifact or a (result, artifact) tuple.
FlowValues ==
    [formatted : {FALSE}, data : {"list", "artifact", "tuple"}, restricted : {"absent"}]
      \cup [formatted : {TRUE}, data : {"list"}, restricted : Flags]

Items == [key : TaskNames, value : FlowValues]

\* Mappings in insertion order, no key twice.
Mappings ==
    UNION {{m \in [1..n -> Items] : \A i, j \in 1..n : i # j => m[i].key # m[j].key} :
             n \in 0..MaxEntries}

\* What a flow function may return: a mapping, or a single value.
RunDatas ==
    [mapping : {TRUE}, items : Mappings] \cup {[mapping |-> FALSE, items |-> <<>>]}

\* flow_meta["restricted_fields"]: the keys it maps to True.
RestrictedFields == {{}, {"fulltext"}, {"counts", "fulltext"}}

Entry(k, d, r) == [key |-> k, data |-> d, restricted |-> r]

AlreadyFormatted_Any(items) == \E j \in 1..Len(items) : items[j].value.formatted

\* all(isinstance(v, dict) and "data" in v for v in run_data.values())
AlreadyFormatted(items) == \A j \in 1..Len(items) : items[j].value.formatted

\* _format_flow_output(run_data, flow_meta)
format_flow_output(run_data, restricted_fields) ==
    IF run_data.mapping
    THEN IF AlreadyFormatted(run_data.items)
         THEN [j \in 1..Len(run_data.items) |->
                 Entry(run_data.items[j].key, run_data.items[j].value.data,
                       run_data.items[j].value.restricted)]
         ELSE [j \in 1..Len(run_data.items) |->
                 Entry(run_data.items[j].key,
                       IF run_data.items[j].value.formatted
                       THEN "dict" ELSE run_data.items[j].value.data,
                       IF run_data.items[j].key \in restricted_fields
                       THEN "true" ELSE "false")]
    ELSE <<Entry("result", "scalar", "false")>>

\* output.get("restricted", False)
IsRestricted(output) == output.restricted = "true"

\* A filter that keeps only the entries flagged False.
filter_restricted_fields_KeepFlaggedFalse(formatted_data, return_restricted) ==
    IF return_restricted
    THEN formatted_data
    ELSE SelectSeq(formatted_data, LAMBDA output : output.restricted = "false")

\* _filter_restricted_fields(formatted_data, return_restricted)
filter_restricted_fields(formatted_data, return_restricted) ==
    IF return_restricted
    THEN formatted_data
    ELSE SelectSeq(formatted_data, LAMBDA output : ~IsRestricted(output))

\* A published table artifact: the entry it was built from, and whether it
\* is the side artifact of a (result, artifact) tuple.
Artifact(output, side) == [name |-> output.key, side |-> side]

NoFlow ==
    [pc |-> "idle", run_data |-> [mapping |-> FALSE, items |-> <<>>],
     restricted_fields |-> {}, return_restricted |-> FALSE,
     formatted |-> <<>>, filtered |-> <<>>, next |-> 1,
     published |-> <<>>, failed |-> <<>>, cause |-> "none"]

\* get_flow, parameter validation and flow_func(validated_params): each may
\* raise, which ends the run; otherwise flow_func returns run_data.
FlowExecute ==
    /\ flow.pc = "start"
    /\ \E raises \in BOOLEAN :
         flow' = IF raises
                 THEN [flow EXCEPT !.pc = "raised", !.cause = "flow"]
                 ELSE [flow EXCEPT !.pc = "ran"]
    /\ UNCHANGED <<runs, reqs, resp, defaults, auth, aux>>

\* formatted_data = _format_flow_output(run_data, flow_meta);
\* filtered_data = _filter_restricted_fields(formatted_data, return_restricted)
FlowFormatFilter ==
    /\ flow.pc = "ran"
    /\ LET formatted_data == format_flow_output(flow.run_data, flow.restricted_fields)
       IN  flow' = [flow EXCEPT
                      !.pc = "publishing",
                      !.formatted = formatted_data,
                      !.filtered = filter_restricted_fields(formatted_data,
                                                            flow.return_restricted)]
    /\ UNCHANGED <<runs, reqs, resp, defaults, auth, aux>>

\* The attempts of one pass of the loop of _create_artifacts, given which
\* calls of create_table_artifact succeed.
Attempts(output, side_ok, main_ok) ==
    LET side == IF output.data = "tuple" THEN <<[a |-> Artifact(output, TRUE), ok |-> side_ok]>>
                ELSE <<>>
    IN  side \o <<[a |-> Artifact(output, FALSE), ok |-> main_ok]>>

Successful(attempts) ==
    LET sel == SelectSeq(attempts, LAMBDA t : t.ok)
    IN  [j \in 1..Len(sel) |-> sel[j].a]

Failed(attempts) ==
    LET sel == SelectSeq(attempts, LAMBDA t : ~t.ok)
    IN  [j \in 1..Len(sel) |-> sel[j].a]

\* One pass of the loop of _create_artifacts.  to_table() is called outside
\* the try block, create_table_artifact inside it.
FlowPublish ==
    /\ flow.pc = "publishing"
    /\ flow.next <= Len(flow.filtered)
    /\ LET output == flow.filtered[flow.next]
       IN  \E to_table_raises, side_ok, main_ok \in BOOLEAN :
             /\ to_table_raises => output.data \in {"artifact", "tuple"}
             /\ output.data # "tuple" => side_ok
             /\ to_table_raises => side_ok /\ main_ok
             /\ flow' = IF to_table_raises
                        THEN [flow EXCEPT !.pc = "raised", !.cause = "to_table"]
                        ELSE [flow EXCEPT
                                !.next = @ + 1,
                                !.published = @ \o Successful(Attempts(output, side_ok, main_ok)),
                                !.failed = @ \o Failed(Attempts(output, side_ok, main_ok))]
    /\ UNCHANGED <<runs, reqs, resp, defaults, auth, aux>>

\* return filtered_data
FlowReturn ==
    /\ flow.pc = "publishing"
    /\ flow.next > Len(flow.filtered)
    /\ flow' = [flow EXCEPT !.pc = "returned"]
    /\ UNCHANGED <<runs, reqs, resp, defaults, auth, aux>>

\* The flows of the registry: what each recipe's flow function returns, and
\* the restricted_fields of its metadata.
RecipeOutput(recipe_name) ==
    [mapping |-> TRUE,
     items |-> <<[key |-> "counts",
                  value |-> [formatted |-> FALSE, data |-> "list", restricted |-> "absent"]],
                 [key |-> "fulltext",
                  value |-> [formatted |-> FALSE, data |-> "list", restricted |-> "absent"]]>>]

RecipeRestricted(recipe_name) == {"fulltext"}

\* kitchen_base(recipe_name, tags, parameters, return_restricted_artifacts)
\* when nothing fails: the value it returns and the artifacts it publishes.
kitchen_base(parameters) ==
    LET formatted_data == format_flow_output(RecipeOutput(parameters.recipe_name),
                                             RecipeRestricted(parameters.recipe_name))
        filtered_data == filter_restricted_fields(formatted_data,
                                                  parameters.return_restricted_artifacts)
    IN  [result |-> filtered_data,
         artifacts |-> {Artifact(filtered_data[j], FALSE) : j \in 1..Len(filtered_data)}]

(***************************************************************************)
(* Reading the artifacts of a run: api.fetch_run_artifacts ->              *)
(* chef.fetch_run_artifacts.                                               *)
(***************************************************************************)
\* client.read_artifacts(flow_run_filter=FlowRunFilter(id=any_[run_id])):
\* the filter rejects a string that is no UUID; an id of no run matches
\* nothing.
fetch_run_artifacts(idtype, idval) ==
    IF idtype = "str" /\ ~ParsesAsUUID(idval)
    THEN [exc |-> "ValueError", artifacts |-> {}]
    ELSE [exc |-> "none",
          artifacts |-> IF idval \in 1..Len(runs) THEN runs[idval].artifacts ELSE {}]

FetchArtifacts(u, idval) ==
    /\ CanAccept
    /\ ApiAuthorized(u)
    /\ idval \in IdArgs
    /\ LET r == Called(Request("artifacts", "api", u, "nosuch", "str", idval, "none", <<>>),
                       "read_artifacts")
           found == fetch_run_artifacts(r.idtype, r.idval)
       IN  resp' = IF found.exc # "none"
                   THEN Response(r, found.exc, 400, [Msg("Invalid run ID") EXCEPT !.rid = idval])
                   ELSE Response(r, "none", 200,
                                 [NoDetail EXCEPT !.rid = idval, !.artifacts = found.artifacts])
    /\ UNCHANGED <<runs, reqs, defaults, flow, auth, aux>>

(***************************************************************************)
(* Reading runs: the listing endpoints, run by id and the flow status.     *)
(***************************************************************************)
RECURSIVE Ascending(_)
Ascending(ids) ==
    IF ids = {} THEN <<>>
    ELSE LET first == CHOOSE i \in ids : \A j \in ids : i <= j
         IN  <<first>> \o Ascending(ids \ {first})

Reverse(seq) == [j \in 1..Len(seq) |-> seq[Len(seq) + 1 - j]]

fetch_all_runs_Unsorted(tags, parent_only) ==
    LET t == tags \o BASE_TAGS
        matching == {i \in 1..Len(runs) : HasAllTags(runs[i].tags, t)}
        kept == {i \in matching : parent_only => ~runs[i].parent}
    IN  [tags |-> t, ids |-> Ascending(kept)]

\* fetch_all_runs(tags, parent_only): tags += BASE_TAGS; the runs with all
\* these tags, without the child runs if parent_only, newest first.
fetch_all_runs(tags, parent_only) ==
    LET t == tags \o BASE_TAGS
        matching == {i \in 1..Len(runs) : HasAllTags(runs[i].tags, t)}
        kept == {i \in matching : parent_only => ~runs[i].parent}
    IN  [tags |-> t, ids |-> Reverse(Ascending(kept))]

\* The tag lists the core is asked to list by: none, a user's slug, a tag
\* no run carries.
ListTags == {<<>>, <<SlugOf("u1")>>, <<"none">>}

\* The runs an engine may hold: kitchen runs of a user and of others, with
\* and without a parent, and runs of other applications.
ListedRuns ==
    [state : {"COMPLETED"},
     tags : {<<SlugOf("u1"), "kitchen">>, <<"kitchen">>, <<SlugOf("u1")>>},
     parent : BOOLEAN,
     artifacts : {{}},
     parameters : {NoParams}]

\* chef.fetch_all_runs(tags, parent_only), called on the core.
ListCall(tags, parent_only) ==
    /\ resp = NoResp
    /\ LET r == [Request("list", "core", "u1", "nosuch", "str", BadId, "none", tags)
                    EXCEPT !.parent_only = parent_only]
           q == fetch_all_runs(tags, parent_only)
       IN  resp' = Response(Called(r, "read_flow_runs"), "none", 200,
                            [NoDetail EXCEPT !.ids = q.ids])
    /\ UNCHANGED <<runs, reqs, defaults, flow, auth, aux>>

\* GET /runs/active: chef.fetch_active_runs(tags=[])
FetchActiveRuns(u) ==
    /\ CanAccept
    /\ ApiAuthorized(u)
    /\ LET q == fetch_active_runs(<<>>)
           r == Called(Request("active", "api", u, "nosuch", "str", BadId, "none", q.tags),
                       "read_flow_runs")
       IN  resp' = Response(r, "none", 200, [NoDetail EXCEPT !.ids = Ascending(q.ids)])
    /\ UNCHANGED <<runs, reqs, defaults, flow, auth, aux>>

\* GET /runs/all: chef.fetch_all_runs(tags=[])
FetchAllRuns(u) ==
    /\ CanAccept
    /\ ApiAuthorized(u)
    /\ LET q == fetch_all_runs(<<>>, TRUE)
           r == Called(Request("all", "api", u, "nosuch", "str", BadId, "none", q.tags),
                       "read_flow_runs")
       IN  resp' = Response(r, "none", 200, [NoDetail EXCEPT !.ids = q.ids])
    /\ UNCHANGED <<runs, reqs, defaults, flow, auth, aux>>

\* GET /runs/list: all_users is refused to a caller who is not staff;
\* tags_to_use = [] if all_users else [auth_status.tag_slug]
FetchUserRuns(u, parent_only, all_users) ==
    /\ CanAccept
    /\ ApiAuthorized(u)
    /\ LET r == [Request("list", "api", u, "nosuch", "str", BadId, "none", <<>>)
                    EXCEPT !.parent_only = parent_only]
           tags_to_use == IF all_users THEN <<>> ELSE <<AuthStatus(u).tag_slug>>
           q == fetch_all_runs(tags_to_use, parent_only)
       IN  resp' = IF all_users /\ ~AuthStatus(u).media_cloud_staff
                   THEN Response(r, "HTTPException", 403,
                                 Msg("Only admin users can view all runs"))
                   ELSE Response([Called(r, "read_flow_runs") EXCEPT !.tags = q.tags],
                                 "none", 200, [NoDetail EXCEPT !.ids = q.ids])
    /\ UNCHANGED <<runs, reqs, defaults, flow, auth, aux>>

\* GET /run/{run_id}: chef.fetch_run_by_id(run_id); the handler catches
\* ValueError only.
FetchRunById(u, idval) ==
    /\ CanAccept
    /\ ApiAuthorized(u)
    /\ idval \in IdArgs
    /\ LET r == Request("run", "api", u, "nosuch", "str", idval, "none", <<>>)
           found == fetch_run_by_id(runs, r.idtype, r.idval)
       IN  resp' = IF found.exc = "ValueError"
                   THEN Response(r, "ValueError", 400,
                                 [Msg(found.cause) EXCEPT !.rid = idval])
                   ELSE IF found.exc # "none"
                   THEN Response(Called(r, "read_flow_run"), found.exc, 500,
                                 [Msg(found.cause) EXCEPT !.rid = idval])
                   ELSE Response(Called(r, "read_flow_run"), "none", 200,
                                 [NoDetail EXCEPT !.rid = idval, !.has = runs[idval].tags])
    /\ UNCHANGED <<runs, reqs, defaults, flow, auth, aux>>

\* GET /user/flow-status: fetch_active_runs(tags=[auth_status.tag_slug])
GetUserFlowStatus(u) ==
    /\ CanAccept
    /\ ApiAuthorized(u)
    /\ LET q == fetch_active_runs(<<AuthStatus(u).tag_slug>>)
           r == Called(Request("flow-status", "api", u, "nosuch", "str", BadId, "none",
                               q.tags), "read_flow_runs")
           active_count == Cardinality(q.ids)
       IN  resp' = Response(r, "none", 200,
                            [Msg(IF active_count >= MAX_USER_FLOWS
                                 THEN "at_capacity" ELSE "below_capacity")
                               EXCEPT !.n = active_count, !.quota = MAX_USER_FLOWS])
    /\ UNCHANGED <<runs, reqs, defaults, flow, auth, aux>>

\* GET /recipe/schema and /recipe/list: answered from the flow registry,
\* with no call to the engine.
RecipeRead(op, u, recipe) ==
    /\ CanAccept
    /\ ApiAuthorized(u)
    /\ op \in {"schema", "recipes"}
    /\ op = "recipes" => recipe = "nosuch"
    /\ LET r == Request(op, "api", u, recipe, "str", BadId, "none", <<>>)
       IN  resp' = IF op = "schema" /\ ~get_flow(recipe).found
                   THEN Response(r, "ValueError", 404, Msg("Recipe not found"))
                   ELSE Ok(r)
    /\ UNCHANGED <<runs, reqs, defaults, flow, auth, aux>>

(***************************************************************************)
(* The auth resolver: chef.validate_auth and generate_tag_slug.  Strings   *)
(* are sequences of characters.                                            *)
(***************************************************************************)
\* A missing header or credential.
None == <<"None">>

Emails == {None, <<>>, <<"P", "a", ".", "b", "@", "x">>, <<"a", "+", "1">>,
           <<"a", ".", "+", "b", "@", "x">>}

ApiKeys == {None, <<>>, <<"k", "1">>, <<"k", "2">>}

\* What mc_search.user_profile() does: it raises (network error, timeout,
\* HTTP error, undecodable body), or returns the decoded JSON body: null, a
\* list, the "User Not Found" message, or a profile with or without is_staff.
Answers == {"raises", "null", "list", "notfound", "profile", "staff_profile", "bare_profile"}

Profiles == {"profile", "staff_profile", "bare_profile"}

\* auth_result.get("is_staff", False)
IsStaff(answer) == answer = "staff_profile"

\* c.lower()
Lower(c) == IF c = "P" THEN "p" ELSE c

\* c matches [a-zA-Z0-9]
IsAlnum(c) == c \in {"a", "b", "c", "f", "i", "k", "p", "r", "t", "x", "P", "1", "2"}

\* user_email.split("@")[0], or the whole string if it holds no "@".
LocalPart(user_email) ==
    LET ats == {j \in 1..Len(user_email) : user_email[j] = "@"}
    IN  IF ats = {} THEN user_email
        ELSE SubSeq(user_email, 1, (CHOOSE j \in ats : \A k \in ats : j <= k) - 1)

\* re.sub(r"[^a-zA-Z0-9]", "-", text.lower())
Sanitize(text) ==
    [j \in 1..Len(text) |-> IF IsAlnum(Lower(text[j])) THEN Lower(text[j]) ELSE "-"]

Digest_EmailOnly(user_email, api_key) == user_email

\* hashlib.sha1(f"{user_email}:{api_key}".encode()).hexdigest()[:8], taken
\* as free of collisions: the digest stands for the string it was made of.
Digest(user_email, api_key) == user_email \o <<":">> \o api_key

\* f"user-{base_slug}-{digest}", as its three parts.
generate_tag_slug(user_email, api_key) ==
    <<"user", Sanitize(LocalPart(user_email)), Digest(user_email, api_key)>>

Falsy_OnlyNone(text) == text = None

\* not text
Falsy(text) == text = None \/ text = <<>>

\* The credentials generate_tag_slug is called with: validate_auth calls it
\* after the test for missing credentials.
SlugEmails == Emails \ {None, <<>>}

SlugKeys == ApiKeys \ {None, <<>>}

NoSlug == <<>>

(***************************************************************************)
(* Email enrichment: the part of start_recipe between the validation of    *)
(* the parameters and the admission query.  A value of email_to is a list  *)
(* of emails, a single string, None, or absent from the parameters.        *)
(***************************************************************************)
List(items) == [type |-> "list", items |-> items]

Str(text) == [type |-> "str", items |-> <<text>>]

NoneValue == [type |-> "NoneType", items |-> <<>>]

Absent == [type |-> "absent", items |-> <<>>]

EmailLists == UNION {[1..n -> SlugEmails] : n \in 0..MaxEmailTo}

\* What final_params holds under "email_to" after validation.
EmailToValues ==
    {List(l) : l \in EmailLists} \cup {Str(e) : e \in SlugEmails \cup {<<>>}}
        \cup {NoneValue, Absent}

\* bool(value) of a value that is no list.
Truthy(value) == value.type = "str" /\ value.items[1] # <<>>

AlreadyPresent_Never(auth_email, email_list) == FALSE

\* auth_email in email_list
AlreadyPresent(auth_email, email_list) == InList(auth_email, email_list)

\* The email_to that start_recipe submits: auth_email is appended to the
\* list unless it is in it; a value that is no list becomes [value], or []
\* if it is falsy, and is only stored back together with the appended email.
enrich_email_to(auth_email, has_params_model, declares, value) ==
    IF Falsy(auth_email) \/ ~has_params_model THEN value
    ELSE IF declares \/ value.type # "absent"
    THEN LET email_list == IF value.type = "list" THEN value.items
                           ELSE IF Truthy(value) THEN <<value.items[1]>>
                           ELSE <<>>
         IN  IF AlreadyPresent(auth_email, email_list) THEN value
             ELSE List(Append(email_list, auth_email))
    ELSE value

NoEnrich ==
    [pc |-> "idle", auth_email |-> None, params_model |-> FALSE, declares |-> FALSE,
     validated |-> Absent, submitted |-> Absent]

\* start_recipe, from the validated parameters to the parameters it submits.
EnrichApply ==
    /\ enrich.pc = "validated"
    /\ enrich' = [enrich EXCEPT
                    !.pc = "submitted",
                    !.submitted = enrich_email_to(enrich.auth_email, enrich.params_model,
                                                  enrich.declares, enrich.validated)]
    /\ UNCHANGED <<runs, reqs, resp, defaults, flow, auth, slug, session, publish>>

(***************************************************************************)
(* Client sessions.  Every engine call of chef.py stands in a block        *)
(* "async with prefect.get_client() as client:"; an operation is the       *)
(* sequence of its blocks, each block the sequence of its calls.           *)
(***************************************************************************)
SessionOps == {"list", "by_state", "get", "artifacts", "status", "cancel", "start"}

Blocks(op) ==
    CASE op = "list" -> << <<"read_flow_runs">> >>
      [] op = "by_state" -> << <<"read_flow_runs">> >>
      [] op = "get" -> << <<"read_flow_run">> >>
      [] op = "artifacts" -> << <<"read_artifacts">> >>
      [] op = "status" -> << <<"hello", "read_work_pool", "read_workers_for_work_pool">> >>
      [] op = "cancel" -> << <<"read_flow_run">>, <<"set_flow_run_state">> >>
      [] op = "start" -> << <<"read_flow_runs">>,
                            <<"read_deployments", "create_flow_run_from_deployment">> >>

\* How a call inside a block may end: it returns, it raises, it returns no
\* deployment (start_recipe raises ValueError inside the block), or it raises
\* ObjectNotFound that get_system_status catches inside the block.
Outcomes(call) ==
    {"ok", "raises"}
        \cup (IF call = "read_deployments" THEN {"empty"} ELSE {})
        \cup (IF call = "read_work_pool" THEN {"caught"} ELSE {})

\* The blocks after which the operation itself may raise, outside any block:
\* cancel after its tag check and on ABORT, start at capacity.
RaisesAfter(op) ==
    CASE op = "cancel" -> {1, 2}
      [] op = "start" -> {1}
      [] OTHER -> {}

Released_OnReturnOnly(raising) == ~raising

\* __aexit__ of the block releases the session, whether the block is left
\* by its end or by an exception.
Released(raising) == TRUE

NoSession ==
    [op |-> "none", pc |-> "idle", b |-> 1, c |-> 1, base |-> 0, open |-> 0, log |-> <<>>]

\* async with prefect.get_client() as client:
SessionEnter ==
    /\ session.pc = "enter"
    /\ session' = [session EXCEPT !.pc = "in", !.c = 1, !.open = @ + 1]
    /\ UNCHANGED <<runs, reqs, resp, defaults, flow, auth, slug, enrich, publish>>

\* await client.<call>(...), inside the block.
SessionCall ==
    /\ session.pc = "in"
    /\ session.c <= Len(Blocks(session.op)[session.b])
    /\ LET call == Blocks(session.op)[session.b][session.c]
       IN  \E outcome \in Outcomes(call) :
              session' = [session EXCEPT
                            !.log = Append(@, [call |-> call, open |-> session.open]),
                            !.c = @ + 1,
                            !.pc = IF outcome \in {"ok", "caught"} THEN "in" ELSE "unwind"]
    /\ UNCHANGED <<runs, reqs, resp, defaults, flow, auth, slug, enrich, publish>>

\* The block is left, by its end or by the exception raised in it.
SessionExit ==
    /\ \/ session.pc = "unwind"
       \/ session.pc = "in" /\ session.c > Len(Blocks(session.op)[session.b])
    /\ LET raising == session.pc = "unwind"
       IN  session' = [session EXCEPT
                         !.open = IF Released(raising) THEN @ - 1 ELSE @,
                         !.pc = IF raising THEN "raised" ELSE "after"]
    /\ UNCHANGED <<runs, reqs, resp, defaults, flow, auth, slug, enrich, publish>>

\* The code after a block: it raises, goes on to the next block or returns.
SessionAfter ==
    /\ session.pc = "after"
    /\ \E fails \in BOOLEAN :
          /\ fails => session.b \in RaisesAfter(session.op)
          /\ session' = [session EXCEPT
                           !.b = @ + 1,
                           !.pc = IF fails THEN "raised"
                                  ELSE IF session.b < Len(Blocks(session.op)) THEN "enter"
                                  ELSE "returned"]
    /\ UNCHANGED <<runs, reqs, resp, defaults, flow, auth, slug, enrich, publish>>

\* One call of generate_tag_slug, recorded with its result.
(***************************************************************************)
(* The artifact keys of _create_artifacts (kitchen/flow.py): one call of   *)
(* the function on the entries kitchen_base hands it, with the key of      *)
(* every call of create_table_artifact it makes.                           *)
(***************************************************************************)
\* Runs of characters outside [0-9a-zA-Z], each replaced by one "-".
RECURSIVE re_sub_runs(_, _)
re_sub_runs(text, j) ==
    IF j > Len(text) THEN <<>>
    ELSE IF IsAlnum(text[j]) THEN <<text[j]>> \o re_sub_runs(text, j + 1)
    ELSE IF j > 1 /\ ~IsAlnum(text[j - 1]) THEN re_sub_runs(text, j + 1)
    ELSE <<"-">> \o re_sub_runs(text, j + 1)

\* key = re.sub("[^0-9a-zA-Z]+", "-", task_name.lower())
sanitized_key(task_name) ==
    re_sub_runs([j \in 1..Len(task_name) |-> Lower(task_name[j])], 1)

\* artifact_key = f"{key}-artifact"
artifact_key(key) == key \o <<"-", "a", "r", "t", "i", "f", "a", "c", "t">>

\* key=f"{flow_run_name}-{key}"
table_key(flow_run_name, key) == flow_run_name \o <<"-">> \o key

\* flow_run_context.flow_run.dict().get("name")
FlowRunNames == {<<"r", "1">>, <<"r", "2">>}

\* The names of the entries of a flow's output.
EntryNames ==
    {<<"a", "b">>, <<"a", ".", "b">>, <<"a", "-", "b">>, <<"a", ".", "+", "b">>,
     <<"P">>, <<"p">>, <<"x">>, <<"x", "-", "a", "r", "t", "i", "f", "a", "c", "t">>}

\* output["data"]: a list, a BaseArtifact, or a (result, artifact) tuple of
\* a result that is not None and a BaseArtifact.
DataKinds == {"list", "artifact", "tuple"}

\* formatted_data: entries in insertion order, no name twice.
FormattedDatas ==
    UNION {{m \in [1..n -> [key : EntryNames, data : DataKinds]] :
               \A i, j \in 1..n : i # j => m[i].key # m[j].key} : n \in 0..MaxEntries}

NoPublish ==
    [pc |-> "idle", flow_run_name |-> <<>>, formatted_data |-> <<>>, next |-> 1,
     calls |-> <<>>]

\* The calls of create_table_artifact of one pass of the loop: the side
\* artifact of a tuple first, then the result or the entry's data.
KeyedCalls(flow_run_name, j, output) ==
    LET key == sanitized_key(output.key)
        side == IF output.data = "tuple"
                THEN <<[entry |-> j, side |-> TRUE,
                        key |-> table_key(flow_run_name, artifact_key(key))]>>
                ELSE <<>>
    IN  side \o <<[entry |-> j, side |-> FALSE, key |-> table_key(flow_run_name, key)]>>

\* One pass of the loop of _create_artifacts.  to_table() is called outside
\* the try block; a failure of create_table_artifact is caught and the loop
\* goes on.
CreateArtifact ==
    /\ publish.pc = "loop"
    /\ publish.next <= Len(publish.formatted_data)
    /\ LET output == publish.formatted_data[publish.next]
       IN  \E to_table_raises \in BOOLEAN :
             /\ to_table_raises => output.data \in {"artifact", "tuple"}
             /\ publish' = IF to_table_raises
                           THEN [publish EXCEPT !.pc = "raised"]
                           ELSE [publish EXCEPT
                                   !.next = @ + 1,
                                   !.calls = @ \o KeyedCalls(publish.flow_run_name,
                                                             publish.next, output)]
    /\ UNCHANGED <<runs, reqs, resp, defaults, flow, auth, slug, enrich, session>>

\* The loop has gone through every entry.
CreateArtifactsReturn ==
    /\ publish.pc = "loop"
    /\ publish.next > Len(publish.formatted_data)
    /\ publish' = [publish EXCEPT !.pc = "returned"]
    /\ UNCHANGED <<runs, reqs, resp, defaults, flow, auth, slug, enrich, session>>

SlugCall(user_email, api_key) ==
    /\ Len(slug) < MaxCalls
    /\ slug' = Append(slug, [user_email |-> user_email, api_key |-> api_key,
                             tag |-> generate_tag_slug(user_email, api_key)])
    /\ UNCHANGED <<runs, reqs, resp, defaults, flow, auth, enrich, session, publish>>

\* The fields SousChefKitchenAuthStatus declares (shared/models.py).
DeclaredFields == {"media_cloud_authorized", "sous_chef_authorized"}

\* SousChefKitchenAuthStatus()
NewAuthStatus == [media_cloud_authorized |-> FALSE, sous_chef_authorized |-> FALSE]

\* The computed field authorized.
authorized(status) == status.media_cloud_authorized /\ status.sous_chef_authorized

\* status.<name> = value: a model object accepts its declared fields only
\* and raises ValueError for any other name.
SetAttr(status, name, value) ==
    IF name \in DeclaredFields
    THEN [raised |-> FALSE, status |-> [status EXCEPT ![name] = value]]
    ELSE [raised |-> TRUE, status |-> status]

\* The assignments of validate_auth after the not-found test, in order.
NumAssignments == 5

Assignment(k, a) ==
    CASE k = 1 -> [name |-> "media_cloud_authorized", reads |-> FALSE, value |-> TRUE]
      [] k = 2 -> [name |-> "media_cloud_staff", reads |-> TRUE, value |-> IsStaff(a.answer)]
      [] k = 3 -> [name |-> "media_cloud_full_text_authorized", reads |-> TRUE,
                   value |-> IsStaff(a.answer)]
      [] k = 4 -> [name |-> "sous_chef_authorized", reads |-> FALSE, value |-> TRUE]
      [] k = 5 -> [name |-> "tag_slug", reads |-> FALSE,
                   value |-> generate_tag_slug(a.email, a.key)]

NoAuth ==
    [pc |-> "idle", email |-> <<>>, key |-> <<>>, answer |-> "raises",
     status |-> NewAuthStatus, k |-> 1, calls |-> 0, raised |-> "none"]

\* status = SousChefKitchenAuthStatus(); if not auth_email or not auth_key:
\* return status
AuthBegin ==
    /\ auth.pc = "start"
    /\ auth' = [auth EXCEPT !.status = NewAuthStatus,
                            !.pc = IF Falsy(auth.email) \/ Falsy(auth.key)
                                   THEN "returned" ELSE "call"]
    /\ UNCHANGED <<runs, reqs, resp, defaults, flow, aux>>

\* auth_result = mc_search.user_profile(); an exception is caught by
\* "except Exception", which returns status.
AuthCall ==
    /\ auth.pc = "call"
    /\ auth' = [auth EXCEPT !.calls = @ + 1,
                            !.raised = IF auth.answer = "raises" THEN "user_profile" ELSE @,
                            !.pc = IF auth.answer = "raises" THEN "returned" ELSE "read"]
    /\ UNCHANGED <<runs, reqs, resp, defaults, flow, aux>>

\* if "message" in auth_result and auth_result["message"] == "User Not
\* Found": return status.  The test raises TypeError on null.
AuthRead ==
    /\ auth.pc = "read"
    /\ auth' = [auth EXCEPT !.raised = IF auth.answer = "null" THEN "TypeError" ELSE @,
                            !.pc = IF auth.answer \in {"null", "notfound"}
                                   THEN "returned" ELSE "assign"]
    /\ UNCHANGED <<runs, reqs, resp, defaults, flow, aux>>

\* The next assignment to status.  auth_result.get raises AttributeError on
\* a list; either exception is caught and status returned as it is.
AuthAssign ==
    /\ auth.pc = "assign"
    /\ LET asg == Assignment(auth.k, auth)
           set == SetAttr(auth.status, asg.name, asg.value)
       IN  auth' = IF asg.reads /\ auth.answer = "list"
                   THEN [auth EXCEPT !.raised = "AttributeError", !.pc = "returned"]
                   ELSE IF set.raised
                   THEN [auth EXCEPT !.raised = "ValueError", !.pc = "returned"]
                   ELSE [auth EXCEPT !.status = set.status,
                                     !.k = @ + 1,
                                     !.pc = IF auth.k = NumAssignments
                                            THEN "returned" ELSE "assign"]
    /\ UNCHANGED <<runs, reqs, resp, defaults, flow, aux>>


(***************************************************************************)
(* The engine and the other clients of the same engine.                    *)
(***************************************************************************)
EngineNext(s) ==
    CASE s = "SCHEDULED" -> {"PENDING"}
      [] s = "PENDING" -> {"RUNNING"}
      [] s = "RUNNING" -> {"COMPLETED", "FAILED", "PAUSED"}
      [] s = "CANCELLING" -> {"CANCELLED"}
      [] OTHER -> {}

\* The engine moves a run on; a worker that brings the run of a recipe to
\* COMPLETED has executed kitchen_base with the run's parameters.
EngineAdvance(i) ==
    /\ resp = NoResp
    /\ Exists(i)
    /\ \E s \in EngineNext(runs[i].state) :
          runs' = [runs EXCEPT
                     ![i].state = s,
                     ![i].artifacts =
                        IF s = "COMPLETED" /\ runs[i].parameters.recipe_name \in Recipes
                        THEN kitchen_base(runs[i].parameters).artifacts
                        ELSE @]
    /\ UNCHANGED <<reqs, resp, defaults, flow, auth, aux>>

\* A run of another application in the same engine: no kitchen tag.
EngineOtherRun ==
    /\ resp = NoResp
    /\ Len(runs) + PendingCreates < MaxRuns
    /\ runs' = Append(runs, [state |-> "SCHEDULED", tags |-> <<"other">>,
                             parent |-> FALSE, artifacts |-> {},
                             parameters |-> NoParams])
    /\ UNCHANGED <<reqs, resp, defaults, flow, auth, aux>>

\* The handler returns; its response goes out to the client.
Return ==
    /\ resp # NoResp
    /\ resp' = NoResp
    /\ UNCHANGED <<runs, reqs, defaults, flow, auth, aux>>

Init ==
    /\ slug = NoSlug
    /\ enrich = NoEnrich
    /\ session = NoSession
    /\ runs = <<>>
    /\ reqs = EmptyBag
    /\ publish = NoPublish
    /\ resp = NoResp
    /\ defaults = [pause |-> <<>>, resume |-> <<>>]
    /\ flow = NoFlow
    /\ auth = NoAuth

\* Every step but the one in which a start request begins.
OtherNext ==
    \/ \E op \in ApiOps, u \in Callers : ApiForbidden(op, u)
    \/ \E r \in BagToSet(reqs) : StartDispatch(r)
    \/ \E u \in Callers, idval \in RidVals : CancelFetch(u, idval)
    \/ \E r \in BagToSet(reqs) : CancelSetState(r)
    \/ \E via \in {"api", "core"}, u \in Callers, idtype \in {"str", "uuid"}, idval \in RidVals :
          PauseQuery(via, u, idtype, idval)
    \/ \E r \in BagToSet(reqs) : PauseCall(r)
    \/ \E via \in {"api", "core"}, u \in Callers, idtype \in {"str", "uuid"}, idval \in RidVals :
          ResumeQuery(via, u, idtype, idval)
    \/ \E r \in BagToSet(reqs) : ResumeCall(r)
    \/ \E u \in Callers, idval \in RidVals : FetchArtifacts(u, idval)
    \/ \E u \in Callers : FetchActiveRuns(u)
    \/ \E u \in Callers : FetchAllRuns(u)
    \/ \E u \in Callers, parent_only, all_users \in BOOLEAN : FetchUserRuns(u, parent_only, all_users)
    \/ \E u \in Callers, idval \in RidVals : FetchRunById(u, idval)
    \/ \E u \in Callers : GetUserFlowStatus(u)
    \/ \E op \in ApiOps, u \in Callers, recipe \in RecipeArgs : RecipeRead(op, u, recipe)
    \/ \E i \in RunIds : EngineAdvance(i)
    \/ EngineOtherRun
    \/ Return

Next ==
    \/ \E u \in Callers, recipe \in RecipeArgs, valid \in BOOLEAN : StartAdmit(u, recipe, valid)
    \/ OtherNext

Spec == Init /\ [][Next]_vars

(***************************************************************************)
(* The executions in which no user has two start requests under way at the *)
(* same time: each start of a user completes before their next one begins. *)
(***************************************************************************)
StartsInFlight(u) ==
    BagCardinality([r \in {x \in BagToSet(reqs) : x.op = "start" /\ x.caller = u}
                      |-> CopiesIn(r, reqs)])

SerialNext ==
    \/ \E u \in Callers, recipe \in RecipeArgs, valid \in BOOLEAN :
          StartsInFlight(u) = 0 /\ StartAdmit(u, recipe, valid)
    \/ OtherNext

SerialSpec == Init /\ [][SerialNext]_vars

(***************************************************************************)
(* One execution of kitchen_base, for every return value of the flow.      *)
(***************************************************************************)
FlowInit ==
    /\ slug = NoSlug
    /\ enrich = NoEnrich
    /\ session = NoSession
    /\ runs = <<>>
    /\ reqs = EmptyBag
    /\ publish = NoPublish
    /\ resp = NoResp
    /\ defaults = [pause |-> <<>>, resume |-> <<>>]
    /\ auth = NoAuth
    /\ \E d \in RunDatas, m \in RestrictedFields, rr \in BOOLEAN :
          flow = [NoFlow EXCEPT !.pc = "start", !.run_data = d,
                                !.restricted_fields = m, !.return_restricted = rr]

FlowNext ==
    \/ FlowExecute
    \/ FlowFormatFilter
    \/ FlowPublish
    \/ FlowReturn

FlowSpec == FlowInit /\ [][FlowNext]_vars

(***************************************************************************)
(* One call of validate_auth, for every pair of credentials and every      *)
(* answer of the identity service.                                         *)
(***************************************************************************)
AuthInit ==
    /\ slug = NoSlug
    /\ enrich = NoEnrich
    /\ session = NoSession
    /\ runs = <<>>
    /\ reqs = EmptyBag
    /\ publish = NoPublish
    /\ resp = NoResp
    /\ defaults = [pause |-> <<>>, resume |-> <<>>]
    /\ flow = NoFlow
    /\ \E e \in Emails, key \in ApiKeys, a \in Answers :
          auth = [NoAuth EXCEPT !.pc = "start", !.email = e, !.key = key, !.answer = a]

AuthNext ==
    \/ AuthBegin
    \/ AuthCall
    \/ AuthRead
    \/ AuthAssign

AuthSpec == AuthInit /\ [][AuthNext]_vars

(***************************************************************************)
(* Calls of generate_tag_slug, one after the other.                        *)
(***************************************************************************)
SlugInit ==
    /\ slug = NoSlug
    /\ enrich = NoEnrich
    /\ session = NoSession
    /\ runs = <<>>
    /\ reqs = EmptyBag
    /\ publish = NoPublish
    /\ resp = NoResp
    /\ defaults = [pause |-> <<>>, resume |-> <<>>]
    /\ flow = NoFlow
    /\ auth = NoAuth

SlugNext == \E user_email \in SlugEmails, api_key \in SlugKeys : SlugCall(user_email, api_key)

SlugSpec == SlugInit /\ [][SlugNext]_vars

(***************************************************************************)
(* The email enrichment of start_recipe, for every requester email and     *)
(* every validated email_to.  A params model that declares email_to has    *)
(* the field in its dump; without a params model nothing is validated.     *)
(***************************************************************************)
EnrichInit ==
    /\ slug = NoSlug
    /\ session = NoSession
    /\ runs = <<>>
    /\ reqs = EmptyBag
    /\ publish = NoPublish
    /\ resp = NoResp
    /\ defaults = [pause |-> <<>>, resume |-> <<>>]
    /\ flow = NoFlow
    /\ auth = NoAuth
    /\ \E e \in Emails, m, d \in BOOLEAN, v \in EmailToValues :
          /\ d => m /\ v # Absent
          /\ enrich = [NoEnrich EXCEPT !.pc = "validated", !.auth_email = e,
                                       !.params_model = m, !.declares = d,
                                       !.validated = v]

EnrichNext == EnrichApply

EnrichSpec == EnrichInit /\ [][EnrichNext]_vars

(***************************************************************************)
(* One core operation and its client sessions, while other requests hold   *)
(* up to MaxOpen sessions of their own.                                    *)
(***************************************************************************)
SessionInit ==
    /\ slug = NoSlug
    /\ enrich = NoEnrich
    /\ runs = <<>>
    /\ reqs = EmptyBag
    /\ publish = NoPublish
    /\ resp = NoResp
    /\ defaults = [pause |-> <<>>, resume |-> <<>>]
    /\ flow = NoFlow
    /\ auth = NoAuth
    /\ \E op \in SessionOps, n \in 0..MaxOpen :
          session = [NoSession EXCEPT !.op = op, !.pc = "enter", !.base = n, !.open = n]

SessionNext ==
    \/ SessionEnter
    \/ SessionCall
    \/ SessionExit
    \/ SessionAfter

SessionSpec == SessionInit /\ [][SessionNext]_vars

(***************************************************************************)
(* Listing the runs of an engine that holds any runs.                      *)
(***************************************************************************)
ListInit ==
    /\ slug = NoSlug
    /\ enrich = NoEnrich
    /\ session = NoSession
    /\ reqs = EmptyBag
    /\ publish = NoPublish
    /\ resp = NoResp
    /\ defaults = [pause |-> <<>>, resume |-> <<>>]
    /\ flow = NoFlow
    /\ auth = NoAuth
    /\ \E n \in 0..MaxListed : runs \in [1..n -> ListedRuns]

ListNext ==
    \/ \E tags \in ListTags, parent_only \in BOOLEAN : ListCall(tags, parent_only)
    \/ Return

ListSpec == ListInit /\ [][ListNext]_vars

(***************************************************************************)
(* _create_artifacts on its own: one call on any entries and run name.     *)
(***************************************************************************)
PublishInit ==
    /\ slug = NoSlug
    /\ enrich = NoEnrich
    /\ session = NoSession
    /\ runs = <<>>
    /\ reqs = EmptyBag
    /\ resp = NoResp
    /\ defaults = [pause |-> <<>>, resume |-> <<>>]
    /\ flow = NoFlow
    /\ auth = NoAuth
    /\ \E name \in FlowRunNames, data \in FormattedDatas :
          publish = [NoPublish EXCEPT !.pc = "loop", !.flow_run_name = name,
                                      !.formatted_data = data]

PublishNext ==
    \/ CreateArtifact
    \/ CreateArtifactsReturn

PublishSpec == PublishInit /\ [][PublishNext]_vars

(***************************************************************************)
(* Vocabulary of the properties.                                           *)
(***************************************************************************)
TagSet(tags) == {tags[j] : j \in 1..Len(tags)}

\* The runs of rs that count toward the quota of u: every tag of
\* BASE_TAGS and the slug of u, in state RUNNING, SCHEDULED or PENDING.
OwnActiveIn(rs, u) ==
    {i \in 1..Len(rs) :
        /\ rs[i].state \in {"RUNNING", "SCHEDULED", "PENDING"}
        /\ {"kitchen", SlugOf(u)} \subseteq TagSet(rs[i].tags)}

CarriesSlug(i, u) == SlugOf(u) \in TagSet(runs[i].tags)

Owned(i, u) == {"kitchen", SlugOf(u)} \subseteq TagSet(runs[i].tags)

\* The step in which request r leaves the program counter it is at.
Leaves(r) == BagIn(r, reqs) /\ CopiesIn(r, reqs') < CopiesIn(r, reqs)

\* The step in which request r comes into flight.
Enters(r) == CopiesIn(r, reqs') > CopiesIn(r, reqs)

\* The step in which a start request of caller u makes its admission query:
\* it either ends there or comes into flight.
AdmissionStep(u) ==
    \/ /\ resp = NoResp /\ resp' # NoResp
       /\ resp'.req.op = "start" /\ resp'.req.caller = u
       /\ InList("read_flow_runs", resp'.req.calls)
       /\ ~InList("read_deployments", resp'.req.calls)
    \/ \E r2 \in BagToSet(reqs') : r2.op = "start" /\ r2.caller = u /\ Enters(r2)

DispatchStep(r) == r.op = "start" /\ r.pc = "dispatch" /\ Leaves(r)

\* The step in which a request ends and its response is written.
Responds == resp = NoResp /\ resp' # NoResp

IsCapacityError(rp, n) ==
    /\ rp.exc = "RuntimeError"
    /\ rp.detail.msg = "Cannot start a new recipe run"
    /\ rp.detail.n = n
    /\ rp.detail.quota = MAX_USER_FLOWS

DeploymentMissing(rp) == rp.exc = "ValueError" /\ rp.detail.msg = "No deployment found"

(***************************************************************************)
(* C1: a start whose admission query finds at least MAX_USER_FLOWS active  *)
(* runs carrying BASE_TAGS and the caller's slug ends in a capacity error  *)
(* reporting (active, quota) and creates no run; below the quota the       *)
(* request passes admission and goes on to dispatch.                       *)
(***************************************************************************)
C1_AdmissionByQuota ==
    [][\A u \in Users : AdmissionStep(u) =>
          LET n == Cardinality(OwnActiveIn(runs, u))
          IN  IF n >= MAX_USER_FLOWS
              THEN /\ IsCapacityError(resp', n)
                   /\ runs' = runs
                   /\ reqs' = reqs
              ELSE /\ resp' = NoResp
                   /\ \E r2 \in BagToSet(reqs') :
                         Enters(r2) /\ r2.pc = "dispatch" /\ r2.caller = u
                   /\ runs' = runs]_vars

C1_Witness ==
    /\ IsCapacityError(resp, 1)
    /\ Cardinality(OwnActiveIn(runs, resp.req.caller)) = 1

(***************************************************************************)
(* C2: runs that do not carry the caller's slug never count: the admission *)
(* query of a caller with no active run of their own observes 0 runs and   *)
(* the request passes admission, however many active runs others have.     *)
(***************************************************************************)
NoOwnActive(u) ==
    \A i \in 1..Len(runs) :
        runs[i].state \in PREFECT_ACTIVE_STATES => ~CarriesSlug(i, u)

C2_AdmissionPerUser ==
    [][\A u \in Users : (AdmissionStep(u) /\ NoOwnActive(u)) =>
          /\ resp' = NoResp
          /\ \E r2 \in BagToSet(reqs') :
                /\ Enters(r2)
                /\ r2.caller = u /\ r2.pc = "dispatch" /\ r2.active = 0
          /\ runs' = runs]_vars

C2_Witness ==
    \E r \in BagToSet(reqs) :
        /\ r.op = "start" /\ r.pc = "dispatch" /\ r.active = 0
        /\ Len(runs) = 1
        /\ runs[1].state = "RUNNING"
        /\ "kitchen" \in TagSet(runs[1].tags)
        /\ ~CarriesSlug(1, r.caller)

(***************************************************************************)
(* C3: the create is not conditional on the quota: a request that passed   *)
(* admission and finds the deployment creates its run whatever the number  *)
(* of the caller's active runs has become, so two requests of one user     *)
(* that both observed 0 active runs both create a run.                     *)
(***************************************************************************)
C3_CreateIsUnconditional ==
    [][\A r \in BagToSet(reqs) : (DispatchStep(r) /\ ~DeploymentMissing(resp')) =>
          /\ Len(runs') = Len(runs) + 1
          /\ Cardinality(OwnActiveIn(runs', r.caller))
                = Cardinality(OwnActiveIn(runs, r.caller)) + 1
          /\ resp'.exc = "none"]_vars

\* Quota 1, and a user left with two active runs: the second was created by
\* a request whose admission query had seen 0 active runs.
C3_Witness ==
    /\ MAX_USER_FLOWS = 1
    /\ resp.req.op = "start" /\ resp.exc = "none"
    /\ resp.req.active = 0
    /\ Len(runs) = 2
    /\ runs[1].state = "SCHEDULED" /\ runs[2].state = "SCHEDULED"
    /\ Owned(1, resp.req.caller) /\ Owned(2, resp.req.caller)

(***************************************************************************)
(* C4: a start that ends in an error has issued no create-run call and     *)
(* the step that reports the error leaves the engine's runs unchanged.     *)
(***************************************************************************)
C4_ErrorCreatesNothing ==
    [][(Responds /\ resp'.req.op = "start" /\ resp'.exc # "none") =>
          /\ runs' = runs
          /\ ~InList("create_flow_run_from_deployment", resp'.req.calls)]_vars

C4_Witness ==
    /\ resp.req.op = "start"
    /\ DeploymentMissing(resp)
    /\ InList("read_flow_runs", resp.req.calls)

(***************************************************************************)
(* C5: every run created by start carries exactly the tags BASE_TAGS, the  *)
(* recipe name and the caller's tag slug (the only caller-supplied tag).   *)
(***************************************************************************)
C5_CreatedRunTags ==
    [][\A r \in BagToSet(reqs) : (DispatchStep(r) /\ ~DeploymentMissing(resp')) =>
          /\ Len(runs') = Len(runs) + 1
          /\ TagSet(runs'[Len(runs')].tags)
                = {"kitchen", r.recipe, SlugOf(r.caller)}]_vars

(***************************************************************************)
(* C6: a cancel by a non-staff caller on a run that lacks a tag of         *)
(* {caller's slug} + BASE_TAGS fails, never reaches the set-state call and *)
(* leaves the runs unchanged.                                              *)
(***************************************************************************)
C6_CancelOwnership ==
    [][/\ \A r \in BagToSet(reqs') :
             (r.op = "cancel" /\ r.caller \notin Staff) => Owned(r.idval, r.caller)
       /\ (/\ Responds
           /\ resp'.req.op = "cancel"
           /\ resp'.req.caller \notin Staff
           /\ Exists(resp'.req.idval)
           /\ ~Owned(resp'.req.idval, resp'.req.caller))
          => /\ resp'.exc = "ValueError"
             /\ ~InList("set_flow_run_state", resp'.req.calls)
             /\ runs' = runs]_vars

C6_Witness ==
    /\ resp.req.op = "cancel"
    /\ resp.req.caller \notin Staff
    /\ Exists(resp.req.idval)
    /\ "kitchen" \in TagSet(runs[resp.req.idval].tags)
    /\ ~CarriesSlug(resp.req.idval, resp.req.caller)
    /\ resp.exc = "ValueError"

(***************************************************************************)
(* C7: for a non-staff caller, cancel of a run that exists but is owned by *)
(* another user gives the same error (kind and content) as cancel of an id *)
(* that names no run: the engine state with the foreign run and the one    *)
(* without it are indistinguishable to the caller.                         *)
(***************************************************************************)
C7_CancelHidesExistence ==
    \A u \in Users \ Staff :
        (Len(runs) > 0 /\ ~Owned(Len(runs), u)) =>
            CancelCheck(runs, "str", Len(runs), ApiCancelTags(u))
              = CancelCheck(SubSeq(runs, 1, Len(runs) - 1), "str", Len(runs), ApiCancelTags(u))

(***************************************************************************)
(* C8: a pause or resume by a non-staff caller on a run that does not      *)
(* carry the caller's slug fails as not found and never reaches the        *)
(* engine's pause / resume call, whatever the state of the run.            *)
(***************************************************************************)
C8_LifecycleOwnership ==
    /\ \A r \in BagToSet(reqs) :
          (r.op \in {"pause", "resume"} /\ r.caller \notin Staff)
             => CarriesSlug(r.idval, r.caller)
    /\ (/\ resp.req.op \in {"pause", "resume"}
        /\ resp.req.caller \notin Staff
        /\ Exists(resp.req.idval)
        /\ ~CarriesSlug(resp.req.idval, resp.req.caller))
       => /\ resp.exc = "ValueError"
          /\ resp.detail.msg \in {"Unable to find an active run", "Unable to find a paused run"}
          /\ ~InList("pause_flow_run", resp.req.calls)
          /\ ~InList("resume_flow_run", resp.req.calls)

C8_Witness ==
    /\ resp.req.op = "pause"
    /\ resp.req.via = "api"
    /\ resp.req.caller \notin Staff
    /\ Exists(resp.req.idval)
    /\ runs[resp.req.idval].state = "RUNNING"
    /\ "kitchen" \in TagSet(runs[resp.req.idval].tags)
    /\ ~CarriesSlug(resp.req.idval, resp.req.caller)
    /\ resp.exc = "ValueError"

(***************************************************************************)
(* C9: through the API, a pause of a run the caller owns and that is       *)
(* RUNNING finds the run (the request does not end at the lookup), and a   *)
(* resume of an owned PAUSED run likewise; a resume that succeeds leaves   *)
(* the run in an active state.                                             *)
(***************************************************************************)
C9_PauseResumeOwned ==
    /\ (/\ resp.req.via = "api"
        /\ resp.req.op = "pause"
        /\ Exists(resp.req.idval)
        /\ Owned(resp.req.idval, resp.req.caller)
        /\ runs[resp.req.idval].state = "RUNNING")
       => resp.exc = "none"
    /\ (/\ resp.req.via = "api"
        /\ resp.req.op = "resume"
        /\ Exists(resp.req.idval)
        /\ Owned(resp.req.idval, resp.req.caller)
        /\ runs[resp.req.idval].state = "PAUSED")
       => resp.exc = "none"
    /\ (resp.req.op = "resume" /\ resp.exc = "none")
       => runs[resp.req.idval].state \in PREFECT_ACTIVE_STATES

(***************************************************************************)
(* C10: a pause of a run that is PAUSED or in a terminal state when the    *)
(* core looks it up fails: the request does not go on to the engine's      *)
(* pause call, and the step leaves the runs unchanged.                     *)
(***************************************************************************)
NotPausable == {"PAUSED"} \cup TerminalStates

C10_PauseNeedsActive ==
    [][/\ \A r \in BagToSet(reqs') :
             (r.op = "pause" /\ Enters(r)) => runs[r.idval].state \notin NotPausable
       /\ (/\ Responds
           /\ resp'.req.op = "pause"
           /\ ~InList("pause_flow_run", resp'.req.calls)
           /\ Exists(resp'.req.idval)
           /\ runs[resp'.req.idval].state \in NotPausable)
          => /\ resp'.exc = "ValueError"
             /\ runs' = runs]_vars

C10_Witness ==
    /\ resp.req.op = "pause"
    /\ resp.req.via = "core"
    /\ Exists(resp.req.idval)
    /\ Owned(resp.req.idval, resp.req.caller)
    /\ runs[resp.req.idval].state \in NotPausable
    /\ resp.exc = "ValueError"
    /\ ~InList("pause_flow_run", resp.req.calls)

(***************************************************************************)
(* C11: a resume of a run that is not PAUSED when the core looks it up     *)
(* (active, CANCELLING or terminal) fails as not found: the request does   *)
(* not go on to the engine's resume call, and the step leaves the runs     *)
(* unchanged.                                                              *)
(***************************************************************************)
NotResumable == StateTypes \ {"PAUSED"}

C11_ResumeNeedsPaused ==
    [][/\ \A r \in BagToSet(reqs') :
             (r.op = "resume" /\ Enters(r)) => runs[r.idval].state \notin NotResumable
       /\ (/\ Responds
           /\ resp'.req.op = "resume"
           /\ ~InList("resume_flow_run", resp'.req.calls)
           /\ Exists(resp'.req.idval)
           /\ runs[resp'.req.idval].state \in NotResumable)
          => /\ resp'.exc = "ValueError"
             /\ resp'.detail.msg = "Unable to find a paused run"
             /\ runs' = runs]_vars

C11_Witness ==
    /\ resp.req.op = "resume"
    /\ resp.req.via = "core"
    /\ Exists(resp.req.idval)
    /\ Owned(resp.req.idval, resp.req.caller)
    /\ runs[resp.req.idval].state \in {"RUNNING", "CANCELLING", "COMPLETED"}
    /\ resp.exc = "ValueError"
    /\ ~InList("resume_flow_run", resp.req.calls)

(***************************************************************************)
(* C12: a cancel by a staff caller passes the ownership check for every    *)
(* run that carries BASE_TAGS, whichever slug the run carries, and goes on *)
(* to the set-state call; a cancel of a run that lacks a tag of BASE_TAGS  *)
(* is rejected for every caller, staff or not, with no set-state call and  *)
(* the runs unchanged.                                                     *)
(***************************************************************************)
HasBaseTags(i) == TagSet(BASE_TAGS) \subseteq TagSet(runs[i].tags)

C12_StaffCancelsAnyKitchenRun ==
    [][/\ \A r \in BagToSet(reqs') : r.op = "cancel" => HasBaseTags(r.idval)
       /\ (Responds /\ resp'.req.op = "cancel" /\ Exists(resp'.req.idval)) =>
             /\ (resp'.req.caller \in Staff /\ HasBaseTags(resp'.req.idval))
                   => InList("set_flow_run_state", resp'.req.calls)
             /\ ~HasBaseTags(resp'.req.idval)
                   => /\ resp'.exc = "ValueError"
                      /\ ~InList("set_flow_run_state", resp'.req.calls)
                      /\ runs' = runs]_vars

\* A staff caller has cancelled a run that carries another user's slug.
C12_Witness ==
    /\ resp.req.op = "cancel"
    /\ resp.req.caller \in Staff
    /\ resp.exc = "none"
    /\ InList("set_flow_run_state", resp.req.calls)
    /\ Exists(resp.req.idval)
    /\ ~CarriesSlug(resp.req.idval, resp.req.caller)
    /\ runs[resp.req.idval].state = "CANCELLING"

(***************************************************************************)
(* Vocabulary of the properties of the execution layer.                    *)
(***************************************************************************)
Range(seq) == {seq[j] : j \in 1..Len(seq)}

KeysOf(entries) == {entries[j].key : j \in 1..Len(entries)}

\* kitchen_base has formatted and filtered the flow's return value.
FlowFiltered == flow.pc \in {"publishing", "returned"}

(***************************************************************************)
(* C13: with return_restricted false the filter yields exactly the entries *)
(* of the formatted map whose restricted flag is not true, each as it was  *)
(* and none twice; with return_restricted true it yields the map           *)
(* unchanged; filtering the result again changes nothing.                  *)
(***************************************************************************)
C13_FilterExact ==
    FlowFiltered =>
        LET f == flow.formatted
            g == flow.filtered
            kept == {j \in 1..Len(f) : f[j].restricted # "true"}
        IN  /\ flow.return_restricted => g = f
            /\ ~flow.return_restricted =>
                  /\ Range(g) = {f[j] : j \in kept}
                  /\ Len(g) = Cardinality(kept)
            /\ filter_restricted_fields(g, flow.return_restricted) = g

\* One entry flagged true was dropped, one without a flag was kept.
C13_Witness ==
    /\ FlowFiltered
    /\ ~flow.return_restricted
    /\ Len(flow.formatted) = 2
    /\ Len(flow.filtered) = 1
    /\ flow.formatted[1].restricted = "true"
    /\ flow.filtered[1] = flow.formatted[2]
    /\ flow.filtered[1].restricted = "absent"

(***************************************************************************)
(* C14: the flow cannot bypass the filter: whatever the flow returns, an   *)
(* entry whose key the flow's metadata marks as restricted is neither in   *)
(* the value the run returns nor published as an artifact when             *)
(* return_restricted_artifacts is false.                                   *)
(***************************************************************************)
C14_FilterNotBypassable ==
    (FlowFiltered /\ ~flow.return_restricted) =>
        \A k \in flow.restricted_fields :
            /\ k \notin KeysOf(flow.filtered)
            /\ \A j \in 1..Len(flow.published) : flow.published[j].name # k

(***************************************************************************)
(* C16: a failure while producing the artifact of one entry (converting    *)
(* its data to a table, or the publish call) never ends the run: the run   *)
(* raises only if the flow itself did, every entry whose publish calls did *)
(* not fail is published, and the run returns all post-filter entries.     *)
(***************************************************************************)
C16_ArtifactFailureNotFatal ==
    /\ flow.pc = "raised" => flow.cause = "flow"
    /\ flow.pc = "returned" =>
          /\ flow.next = Len(flow.filtered) + 1
          /\ \A j \in 1..Len(flow.filtered) :
                \/ Artifact(flow.filtered[j], FALSE) \in Range(flow.published)
                \/ Artifact(flow.filtered[j], FALSE) \in Range(flow.failed)

(***************************************************************************)
(* C15: a caller without full-text authorization never obtains a          *)
(* restricted entry: the runs carrying their slug were submitted with      *)
(* return_restricted_artifacts = false, and no response to a request of    *)
(* theirs for the artifacts of a run (any run id) holds an artifact built  *)
(* from an entry the recipe's metadata marks as restricted.                *)
(***************************************************************************)
FullText(u) == AuthStatus(u).media_cloud_full_text_authorized

C15_NoRestrictedData ==
    /\ \A i \in 1..Len(runs) : \A u \in Users :
          (Owned(i, u) /\ ~FullText(u)) => ~runs[i].parameters.return_restricted_artifacts
    /\ (resp.req.op = "artifacts" /\ ~FullText(resp.req.caller) /\ Exists(resp.req.idval)) =>
          \A a \in resp.detail.artifacts :
              a.name \notin RecipeRestricted(runs[resp.req.idval].parameters.recipe_name)

\* Neither the email nor the api key is empty or missing.
HasCredentials == auth.email \notin {None, <<>>} /\ auth.key \notin {None, <<>>}

(***************************************************************************)
(* C17: auth fails closed: when the identity service raises or its         *)
(* response is malformed, validate_auth returns the AuthStatus of an       *)
(* account that is not found (every flag false, not authorized) and has    *)
(* called the service once, with no retry.                                 *)
(***************************************************************************)
C17_AuthFailClosed ==
    (auth.pc = "returned" /\ auth.answer \in {"raises", "null", "list"}
                          /\ HasCredentials) =>
        /\ auth.status = NewAuthStatus
        /\ ~authorized(auth.status)
        /\ auth.calls = 1

(***************************************************************************)
(* C18: for non-empty credentials and a profile from the identity service  *)
(* validate_auth returns media_cloud_authorized and sous_chef_authorized   *)
(* true (so authorized), the staff and full-text flags equal to the        *)
(* profile's staff flag and tag_slug = generate_tag_slug(email, key); and  *)
(* an AuthStatus that is authorized has a tag_slug.                        *)
(***************************************************************************)
C18_AuthOnProfile ==
    /\ (auth.pc = "returned" /\ auth.answer \in Profiles
                             /\ HasCredentials) =>
          /\ auth.status.media_cloud_authorized
          /\ auth.status.sous_chef_authorized
          /\ authorized(auth.status)
          /\ "media_cloud_staff" \in DOMAIN auth.status
          /\ auth.status.media_cloud_staff = IsStaff(auth.answer)
          /\ auth.status.media_cloud_full_text_authorized = IsStaff(auth.answer)
          /\ auth.status.tag_slug = generate_tag_slug(auth.email, auth.key)
    /\ (auth.pc = "returned" /\ authorized(auth.status)) =>
          "tag_slug" \in DOMAIN auth.status

(***************************************************************************)
(* C19: if the email or the api key is empty or missing, validate_auth     *)
(* returns the all-false AuthStatus without any call to the identity       *)
(* service.                                                                *)
(***************************************************************************)
C19_EmptyCredentials ==
    (auth.pc \notin {"idle", "start"} /\ ~HasCredentials) =>
        /\ auth.pc = "returned"
        /\ auth.status = NewAuthStatus
        /\ ~authorized(auth.status)
        /\ auth.calls = 0

\* An empty email with a key the service would have answered with a profile.
C19_Witness ==
    /\ auth.pc = "returned"
    /\ auth.email = <<>>
    /\ auth.key = <<"k", "1">>
    /\ auth.answer = "staff_profile"
    /\ auth.calls = 0
    /\ auth.status = NewAuthStatus

(***************************************************************************)
(* C20: no engine operation is performed for a request whose AuthStatus is *)
(* not authorized: such a request never comes into flight, and every       *)
(* response to one is 403 Forbidden, with no engine call made and the runs *)
(* unchanged, on every guarded endpoint.                                   *)
(***************************************************************************)
Unauthorized(r) == r.via = "api" /\ ~AuthStatus(r.caller).authorized

C20_UnauthorizedIsForbidden ==
    [][/\ \A r \in BagToSet(reqs') : ~Unauthorized(r)
       /\ (Responds /\ Unauthorized(resp'.req)) =>
             /\ resp'.status = 403
             /\ resp'.exc = "HTTPException"
             /\ resp'.req.calls = <<>>
             /\ runs' = runs
             /\ reqs' = reqs]_vars

\* A cancel without valid credentials, while the engine holds a kitchen run.
C20_Witness ==
    /\ resp.req.op = "cancel"
    /\ Unauthorized(resp.req)
    /\ resp.status = 403
    /\ Len(runs) > 0
    /\ HasBaseTags(1)
    /\ runs[1].state = "RUNNING"

RECURSIVE CollapseRuns(_)
CollapseRuns(text) ==
    IF text = <<>> THEN <<>>
    ELSE LET c == Lower(Head(text))
             rest == CollapseRuns(Tail(text))
         IN  IF IsAlnum(c) THEN <<c>> \o rest
             ELSE IF rest # <<>> /\ Head(rest) = "-" THEN rest
             ELSE <<"-">> \o rest

C22_SlugCollapsesRuns ==
    \A i \in 1..Len(slug) :
        slug[i].tag = <<"user", CollapseRuns(LocalPart(slug[i].user_email)),
                        slug[i].user_email \o <<":">> \o slug[i].api_key>>

(***************************************************************************)
(* C23: a start on a recipe marked admin_only is rejected as restricted to *)
(* admins exactly when the caller is not an admin: a caller who is not     *)
(* staff is rejected before any engine call, a staff caller is not         *)
(* rejected on this ground.                                                *)
(***************************************************************************)
AdminRejected(rp) == rp.detail.msg = "restricted to admin users"

C23_AdminOnlyStart ==
    [][(/\ Responds
        /\ resp'.req.op = "start"
        /\ AuthStatus(resp'.req.caller).authorized
        /\ get_flow(resp'.req.recipe).admin_only) =>
            IF AuthStatus(resp'.req.caller).media_cloud_staff
            THEN ~AdminRejected(resp')
            ELSE AdminRejected(resp') /\ resp'.req.calls = <<>> /\ runs' = runs]_vars

(***************************************************************************)
(* C24: get with a string that is no well-formed UUID fails with a         *)
(* validation error and no call to the engine, and that outcome differs    *)
(* from the outcome for a well-formed UUID that names no run, in the core  *)
(* (kind of exception) and at the transport boundary (status).             *)
(***************************************************************************)
C24_MalformedIdIsValidationError ==
    [][(Responds /\ resp'.req.op = "run" /\ AuthStatus(resp'.req.caller).authorized) =>
          LET core == fetch_run_by_id(runs, "str", resp'.req.idval)
              unknown == fetch_run_by_id(runs, "str", MaxRuns + 1)
          IN  /\ resp'.exc = core.exc
              /\ resp'.req.idval = BadId =>
                    /\ core.exc = "ValueError" /\ core.exc # unknown.exc
                    /\ resp'.status = 400
                    /\ resp'.req.calls = <<>>
              /\ (resp'.req.idval # BadId /\ ~Exists(resp'.req.idval)) =>
                    /\ core.exc \notin {"none", "ValueError"}
                    /\ resp'.status \notin {200, 400}
                    /\ resp'.req.calls = <<"read_flow_run">>
              /\ Exists(resp'.req.idval) => resp'.status = 200]_vars

\* A malformed id refused while the engine holds a run.
C24_Witness ==
    /\ resp.req.op = "run"
    /\ resp.req.idval = BadId
    /\ resp.exc = "ValueError" /\ resp.status = 400
    /\ Len(runs) > 0

(***************************************************************************)
(* C25: a start that finds no deployment fails with a configuration error  *)
(* whose kind differs from the user errors (unknown recipe, parameter      *)
(* validation), in the core and at the transport boundary.                 *)
(***************************************************************************)
UserError(rp) == rp.detail.msg \in {"flow not found", "Parameter validation failed"}

\* The kinds of exception and the statuses that user errors are reported with.
UserErrorKinds == {"ValueError"}

UserErrorStatuses == {400}

C25_MissingDeploymentIsConfigError ==
    [][(Responds /\ resp'.req.op = "start" /\ AuthStatus(resp'.req.caller).authorized) =>
          /\ UserError(resp') =>
                resp'.exc \in UserErrorKinds /\ resp'.status \in UserErrorStatuses
          /\ resp'.detail.msg = "No deployment found" =>
                resp'.exc \notin UserErrorKinds /\ resp'.status \notin UserErrorStatuses]_vars

(***************************************************************************)
(* C26: list(tags, parent_only) returns exactly the engine's runs that     *)
(* carry every tag of tags and BASE_TAGS, without the runs that have a     *)
(* parent when parent_only is set, each once, the most recently created    *)
(* first.                                                                  *)
(***************************************************************************)
Listed(rp) == rp.req.op = "list" /\ rp.req.via = "core" /\ rp.status = 200

C26_ListExactAndNewestFirst ==
    Listed(resp) =>
        LET ids == resp.detail.ids
            wanted == TagSet(resp.req.tags) \cup TagSet(BASE_TAGS)
        IN  /\ Range(ids) = {i \in 1..Len(runs) :
                                /\ wanted \subseteq TagSet(runs[i].tags)
                                /\ resp.req.parent_only => ~runs[i].parent}
            /\ \A a, b \in 1..Len(ids) : a < b => ids[a] > ids[b]

\* Two of a user's runs listed around a child run that is left out.
C26_Witness ==
    /\ Listed(resp)
    /\ resp.req.parent_only
    /\ resp.req.tags = <<SlugOf("u1")>>
    /\ resp.detail.ids = <<3, 1>>
    /\ runs[2].parent /\ runs[2].tags = runs[1].tags

(***************************************************************************)
(* C27: email enrichment is idempotent.  With a known requester email, a   *)
(* flow whose schema declares email_to and a validated email_to list, the  *)
(* submitted list contains the requester email: as often as the validated  *)
(* list if it was in it, once otherwise; the other elements and their      *)
(* order are unchanged.                                                    *)
(***************************************************************************)
Count(x, list) == Cardinality({j \in 1..Len(list) : list[j] = x})

Others(x, list) == SelectSeq(list, LAMBDA y : y # x)

Enriched ==
    /\ enrich.pc = "submitted"
    /\ enrich.auth_email \notin {None, <<>>}
    /\ enrich.declares
    /\ enrich.validated.type = "list"

C27_EnrichmentIdempotent ==
    Enriched =>
        LET e == enrich.auth_email
            before == enrich.validated.items
            after == enrich.submitted.items
        IN  /\ enrich.submitted.type = "list"
            /\ Count(e, after) = IF Count(e, before) > 0 THEN Count(e, before) ELSE 1
            /\ Others(e, after) = Others(e, before)

\* The requester email already in the list, next to another address.
C27_Witness ==
    /\ Enriched
    /\ Len(enrich.validated.items) = 2
    /\ Count(enrich.auth_email, enrich.validated.items) = 1
    /\ enrich.submitted = enrich.validated

(***************************************************************************)
(* C28: output normalization by shape.  A mapping whose values are all     *)
(* records with a "data" item passes through unchanged; in any other       *)
(* mapping each value under key k is wrapped as its data, restricted as    *)
(* restricted_fields says for k (false if it says nothing); a value that   *)
(* is no mapping is wrapped as the single entry "result", not restricted;  *)
(* the keys of the result are those of the mapping, or "result".           *)
(***************************************************************************)
\* The value as it stands, as the data of a wrapped entry.
Wrapped(value) == IF value.formatted THEN "dict" ELSE value.data

C28_NormalizationByShape ==
    FlowFiltered =>
        LET items == flow.run_data.items
            f == flow.formatted
            all_records == \A j \in 1..Len(items) : items[j].value.formatted
        IN  IF ~flow.run_data.mapping
            THEN f = <<Entry("result", "scalar", "false")>>
            ELSE /\ Len(f) = Len(items)
                 /\ KeysOf(f) = {items[j].key : j \in 1..Len(items)}
                 /\ \A j \in 1..Len(items) :
                       /\ f[j].key = items[j].key
                       /\ all_records =>
                             /\ f[j].data = items[j].value.data
                             /\ f[j].restricted = items[j].value.restricted
                       /\ ~all_records =>
                             /\ f[j].data = Wrapped(items[j].value)
                             /\ f[j].restricted =
                                   IF items[j].key \in flow.restricted_fields
                                   THEN "true" ELSE "false"

\* A mapping of one record and one plain list: both are wrapped, the record
\* whole, and the metadata marks the list as restricted.
C28_Witness ==
    /\ FlowFiltered
    /\ flow.run_data.mapping
    /\ Len(flow.formatted) = 2
    /\ flow.run_data.items[1].value.formatted
    /\ ~flow.run_data.items[2].value.formatted
    /\ flow.formatted[1].data = "dict" /\ flow.formatted[1].restricted = "false"
    /\ flow.formatted[2].data = "list" /\ flow.formatted[2].restricted = "true"

Queried(r) == InList("read_flow_runs", r.calls)

EachTagOnce(tags) == Len(tags) = Cardinality(TagSet(tags))

C30_CoreStateless ==
    /\ defaults = [pause |-> <<>>, resume |-> <<>>]
    /\ \A r \in BagToSet(reqs) \cup {resp.req} :
          (Queried(r) /\ r.op \in {"start", "list", "active", "pause", "resume"}) =>
              EachTagOnce(r.tags)

(***************************************************************************)
(* C31: start applies its checks in the order recipe lookup, admin-only,   *)
(* parameter validation, admission query, deployment lookup, and reports   *)
(* the first check that fails: no admission query is made for a request    *)
(* that fails an earlier check, and the deployment is looked up only after *)
(* admission.                                                              *)
(***************************************************************************)
\* The request ends with message m before any call to the engine.
EndsEarly(m) == resp'.detail.msg = m /\ resp'.req.calls = <<>> /\ reqs' = reqs

C31_StartCheckOrder ==
    [][/\ \A u \in Users, recipe \in RecipeArgs, valid \in BOOLEAN :
            StartAdmit(u, recipe, valid) =>
               LET n == Cardinality(OwnActiveIn(runs, u))
               IN  IF recipe \notin Recipes THEN EndsEarly("flow not found")
                   ELSE IF get_flow(recipe).admin_only
                   THEN u \notin Staff => EndsEarly("restricted to admin users")
                   ELSE IF ~valid THEN EndsEarly("Parameter validation failed")
                   ELSE IF n >= MAX_USER_FLOWS
                   THEN /\ IsCapacityError(resp', n)
                        /\ resp'.req.calls = <<"read_flow_runs">>
                   ELSE \E r \in BagToSet(reqs') :
                           Enters(r) /\ r.calls = <<"read_flow_runs">>
       /\ \A r \in BagToSet(reqs) :
            DispatchStep(r) =>
               /\ r.calls = <<"read_flow_runs">>
               /\ SubSeq(resp'.req.calls, 1, 2) = <<"read_flow_runs", "read_deployments">>]_vars

\* Invalid parameters from a caller who is at capacity: the validation
\* error, and no admission query.
C31_Witness ==
    /\ resp.req.op = "start"
    /\ resp.detail.msg = "Parameter validation failed"
    /\ resp.req.calls = <<>>
    /\ Cardinality(OwnActiveIn(runs, resp.req.caller)) >= MAX_USER_FLOWS

(***************************************************************************)
(* C32: the only changes the core requests on an existing run are a        *)
(* transition to CANCELLING (cancel), a pause and a resume.  No step       *)
(* removes a run or changes its tags or parameters, and a step of a        *)
(* handler changes the state of a run only as the result of one of these   *)
(* three calls on that run.                                                *)
(***************************************************************************)
HandlerStep == resp' # resp \/ reqs' # reqs

LastCall(r) == IF r.calls = <<>> THEN "none" ELSE r.calls[Len(r.calls)]

C32_OnlyEngineMediatedChanges ==
    [][/\ Len(runs') >= Len(runs)
       /\ \A i \in 1..Len(runs) :
            /\ runs'[i].tags = runs[i].tags
            /\ runs'[i].parameters = runs[i].parameters
            /\ (HandlerStep /\ runs'[i].state # runs[i].state) =>
                  /\ Responds
                  /\ resp'.req.idval = i
                  /\ \/ /\ resp'.req.op = "cancel"
                        /\ LastCall(resp'.req) = "set_flow_run_state"
                        /\ runs'[i].state = "CANCELLING"
                     \/ /\ resp'.req.op = "pause"
                        /\ LastCall(resp'.req) = "pause_flow_run"
                        /\ runs'[i].state = "PAUSED"
                     \/ /\ resp'.req.op = "resume"
                        /\ LastCall(resp'.req) = "resume_flow_run"
                        /\ runs'[i].state \in {"RUNNING", "SCHEDULED"}]_vars

\* A run that a cancel has just moved to CANCELLING, next to another run.
C32_Witness ==
    /\ resp.req.op = "cancel"
    /\ resp.status = 200
    /\ resp.detail.msg = "ACCEPT"
    /\ Len(runs) = 2
    /\ runs[resp.req.idval].state = "CANCELLING"

(***************************************************************************)
(* C33: when the start requests of one user are not interleaved with each  *)
(* other, the number of that user's runs in RUNNING, SCHEDULED or PENDING  *)
(* never exceeds the quota, whatever pause, resume and cancel requests and *)
(* engine state changes come in between.                                   *)
(***************************************************************************)
C33_QuotaWithSerialStarts ==
    \A u \in Users : Cardinality(OwnActiveIn(runs, u)) <= MAX_USER_FLOWS

(***************************************************************************)
(* C34: a pause request reaches the engine only for a run that is in an    *)
(* active state when the request is issued, and a resume request only for  *)
(* a run that is PAUSED when it is issued, also when the engine changes    *)
(* the run's state between the core's query and its pause or resume call.  *)
(***************************************************************************)
\* The step in which request r makes its pause or resume call.
LifecycleCallStep(r) == r.op \in {"pause", "resume"} /\ r.pc = "call" /\ Leaves(r)

C34_LifecycleCallOnCurrentState ==
    [][\A r \in BagToSet(reqs) :
          LifecycleCallStep(r) =>
             IF r.op = "pause"
             THEN runs[r.idval].state \in PREFECT_ACTIVE_STATES
             ELSE runs[r.idval].state = "PAUSED"]_vars

(***************************************************************************)
(* C35: cancel reports success to the caller only if the engine accepted   *)
(* the CANCELLING transition; whenever the engine does not accept it, the  *)
(* cancel fails with a runtime error and the run's state is unchanged.     *)
(***************************************************************************)
\* The step in which cancel request r asks the engine for the transition.
CancelSetStep(r) == r.op = "cancel" /\ r.pc = "set" /\ Leaves(r)

C35_CancelSuccessOnlyIfAccepted ==
    [][\A r \in BagToSet(reqs) :
          CancelSetStep(r) =>
             IF resp'.exc = "none"
             THEN resp'.detail.msg = "ACCEPT" /\ runs'[r.idval].state = "CANCELLING"
             ELSE resp'.exc = "RuntimeError" /\ runs' = runs]_vars

(***************************************************************************)
(* C36: through no listing endpoint (runs/list, runs/all, runs/active)     *)
(* does an authorized caller who is not staff receive a run that does not  *)
(* carry the caller's own tag slug.                                        *)
(***************************************************************************)
ListingOps == {"list", "all", "active"}

C36_ListingsShowOwnRunsOnly ==
    [][(/\ Responds
        /\ resp'.req.via = "api"
        /\ resp'.req.op \in ListingOps
        /\ resp'.status = 200
        /\ ~AuthStatus(resp'.req.caller).media_cloud_staff)
       => \A i \in Range(resp'.detail.ids) : CarriesSlug(i, resp'.req.caller)]_vars

(***************************************************************************)
(* C37: fetching a run by id, or its artifacts, succeeds for a caller who  *)
(* is not staff only if the run carries BASE_TAGS and the caller's slug;   *)
(* a foreign run is answered like an unknown run id.                       *)
(***************************************************************************)
C37_RunByIdOwnRunsOnly ==
    [][(/\ Responds
        /\ resp'.req.via = "api"
        /\ resp'.status = 200
        /\ \/ resp'.req.op = "run"
           \/ resp'.req.op = "artifacts" /\ resp'.detail.artifacts # {}
        /\ resp'.req.idval \in 1..Len(runs)
        /\ ~AuthStatus(resp'.req.caller).media_cloud_staff)
       => Owned(resp'.req.idval, resp'.req.caller)]_vars

(***************************************************************************)
(* C38: the user flow-status report agrees with admission.  In any engine  *)
(* state, with n the number of the user's active kitchen runs in that      *)
(* state: a flow-status request reports active_flows = n and at_capacity   *)
(* exactly when n has reached the quota, and a start by that user with a   *)
(* valid recipe and valid parameters is denied for capacity, reporting n,  *)
(* exactly when n has reached the quota, and is admitted otherwise.        *)
(***************************************************************************)
\* The step in which a flow-status request of caller u is answered.
FlowStatusStep(u) ==
    Responds /\ resp'.req.op = "flow-status" /\ resp'.req.caller = u

C38_FlowStatusAgreesWithAdmission ==
    [][\A u \in Users :
          LET n == Cardinality(OwnActiveIn(runs, u))
              full == n >= MAX_USER_FLOWS
          IN  /\ FlowStatusStep(u) =>
                   /\ resp'.detail.n = n
                   /\ resp'.detail.quota = MAX_USER_FLOWS
                   /\ (resp'.detail.msg = "at_capacity") <=> full
              /\ StartAdmit(u, "keywords", TRUE) =>
                   IF full
                   THEN IsCapacityError(resp', n)
                   ELSE resp' = resp /\ \E r \in BagToSet(reqs') : Enters(r)]_vars

\* A user at the quota has been told so by the flow-status report.
C38_Witness ==
    /\ resp.req.op = "flow-status"
    /\ resp.req.caller \in Users
    /\ resp.detail.msg = "at_capacity"
    /\ resp.detail.n = MAX_USER_FLOWS
    /\ Cardinality(OwnActiveIn(runs, resp.req.caller)) = MAX_USER_FLOWS

(***************************************************************************)
(* C39: when the run of kitchen_base ends, each surviving entry has        *)
(* yielded exactly one publish attempt, except an entry whose data is a    *)
(* (result, side_artifact) tuple, which has yielded one for the side       *)
(* artifact and one for the result; the entries the filter dropped have    *)
(* yielded none.                                                           *)
(***************************************************************************)
\* The calls of create_table_artifact made so far, succeeded or failed.
PublishAttempts == flow.published \o flow.failed

AttemptCount(a) ==
    Cardinality({k \in 1..Len(PublishAttempts) : PublishAttempts[k] = a})

C39_AttemptsPerEntry ==
    flow.pc \in {"returned", "raised"} =>
       /\ \A j \in 1..Len(flow.filtered) :
             /\ AttemptCount(Artifact(flow.filtered[j], FALSE)) = 1
             /\ AttemptCount(Artifact(flow.filtered[j], TRUE)) =
                   IF flow.filtered[j].data = "tuple" THEN 1 ELSE 0
       /\ \A k \in 1..Len(PublishAttempts) :
             PublishAttempts[k].name \in KeysOf(flow.filtered)

(***************************************************************************)
(* C40: within one run, the artifacts are published under the keys         *)
(* {run_name}-{sanitize(entry_name)} (runs of non-alphanumerics replaced   *)
(* by "-", lowercased, with the suffix -artifact for a tuple's side        *)
(* artifact), and distinct publish attempts of the run use distinct keys:  *)
(* no entry's artifact is published under the key of another's.            *)
(***************************************************************************)
C40_DistinctArtifactKeys ==
    /\ \A k \in 1..Len(publish.calls) :
          LET name == publish.formatted_data[publish.calls[k].entry].key
              key == sanitized_key(name)
          IN  publish.calls[k].key =
                 table_key(publish.flow_run_name,
                           IF publish.calls[k].side THEN artifact_key(key) ELSE key)
    /\ \A j, k \in 1..Len(publish.calls) :
          j # k => publish.calls[j].key # publish.calls[k].key

====
